---- MODULE Spec2Model ----
EXTENDS Integers, Sequences, FiniteSets, TLC

(***************************************************************************)
(* Python floats are IEEE-754 binary64.  A float is a record               *)
(* [s, m, e] of value s * m * 2^e, where m is zero or has exactly 53 bits. *)
(* m is a natural number written in limbs of 15 bits, lowest limb first,   *)
(* so that every intermediate product stays an exact integer.              *)
(***************************************************************************)
Base == 2^15

RECURSIVE BNorm(_)
BNorm(x) ==
    IF x = <<>> THEN <<>>
    ELSE IF x[Len(x)] = 0 THEN BNorm(SubSeq(x, 1, Len(x) - 1)) ELSE x

RECURSIVE BFromNat(_)
BFromNat(n) == IF n = 0 THEN <<>> ELSE <<n % Base>> \o BFromNat(n \div Base)

RECURSIVE BToNat(_)
BToNat(x) == IF x = <<>> THEN 0 ELSE Head(x) + Base * BToNat(Tail(x))

RECURSIVE BCmpAt(_, _, _)
BCmpAt(x, y, i) ==
    IF i = 0 THEN 0
    ELSE IF x[i] < y[i] THEN -1
    ELSE IF x[i] > y[i] THEN 1
    ELSE BCmpAt(x, y, i - 1)

BCmp(x, y) ==
    IF Len(x) < Len(y) THEN -1
    ELSE IF Len(x) > Len(y) THEN 1
    ELSE BCmpAt(x, y, Len(x))

RECURSIVE BAddC(_, _, _)
BAddC(x, y, c) ==
    IF x = <<>> /\ y = <<>> THEN (IF c = 0 THEN <<>> ELSE <<c>>)
    ELSE LET a == IF x = <<>> THEN 0 ELSE Head(x)
             b == IF y = <<>> THEN 0 ELSE Head(y)
             t == a + b + c
         IN  <<t % Base>> \o BAddC(IF x = <<>> THEN <<>> ELSE Tail(x),
                                   IF y = <<>> THEN <<>> ELSE Tail(y),
                                   t \div Base)

BAdd(x, y) == BAddC(x, y, 0)

RECURSIVE BSubC(_, _, _)
BSubC(x, y, b) ==
    IF x = <<>> THEN <<>>
    ELSE LET d == Head(x) - (IF y = <<>> THEN 0 ELSE Head(y)) - b
         IN  <<(d + Base) % Base>> \o BSubC(Tail(x),
                                            IF y = <<>> THEN <<>> ELSE Tail(y),
                                            IF d < 0 THEN 1 ELSE 0)

BSub(x, y) == BNorm(BSubC(x, y, 0))

RECURSIVE BMulSmallC(_, _, _)
BMulSmallC(x, k, c) ==
    IF x = <<>> THEN (IF c = 0 THEN <<>> ELSE <<c>>)
    ELSE LET p == Head(x) * k + c
         IN  <<p % Base>> \o BMulSmallC(Tail(x), k, p \div Base)

RECURSIVE BMulRec(_, _)
BMulRec(x, y) ==
    IF y = <<>> THEN <<>>
    ELSE BAdd(BMulSmallC(x, Head(y), 0), <<0>> \o BMulRec(x, Tail(y)))

BMul(x, y) == BNorm(BMulRec(x, y))

BShl(x, k) ==
    IF x = <<>> THEN <<>>
    ELSE [i \in 1..(k \div 15) |-> 0] \o BMulSmallC(x, 2^(k % 15), 0)

BShr(x, k) ==
    LET drop == k \div 15
        r    == k % 15
        y    == IF drop >= Len(x) THEN <<>> ELSE SubSeq(x, drop + 1, Len(x))
    IN  BNorm([i \in 1..Len(y) |->
                 (y[i] \div 2^r)
                 + (IF i < Len(y) THEN (y[i + 1] % 2^r) * 2^(15 - r) ELSE 0)])

RECURSIVE NatBitLen(_)
NatBitLen(n) == IF n = 0 THEN 0 ELSE 1 + NatBitLen(n \div 2)

BBitLen(x) == IF x = <<>> THEN 0 ELSE 15 * (Len(x) - 1) + NatBitLen(x[Len(x)])

BOdd(x) == x # <<>> /\ Head(x) % 2 = 1

FZero == [s |-> 1, m |-> <<>>, e |-> 0]

\* Round the exact value s * (N + f) * 2^e, 0 <= f < 1, f > 0 iff sticky,
\* to the nearest float, ties to even.  q is N without its sh lowest bits and
\* c compares the bits dropped with one half.
FPack(s, q, e) ==
    IF BBitLen(q) = 54 THEN [s |-> s, m |-> BShr(q, 1), e |-> e + 1]
    ELSE [s |-> s, m |-> q, e |-> e]

FRoundUp(s, q, e, c, sticky) ==
    FPack(s, IF c > 0 \/ (c = 0 /\ (sticky \/ BOdd(q))) THEN BAdd(q, <<1>>) ELSE q, e)

FRoundCut(s, N, e, sticky, sh, q) ==
    FRoundUp(s, q, e + sh, BCmp(BSub(N, BShl(q, sh)), BShl(<<1>>, sh - 1)), sticky)

FRoundLen(s, N, e, sticky, L) ==
    IF L <= 53 THEN [s |-> s, m |-> BShl(N, 53 - L), e |-> e - (53 - L)]
    ELSE FRoundCut(s, N, e, sticky, L - 53, BShr(N, L - 53))

FRound(s, N, e, sticky) ==
    IF N = <<>> THEN FZero ELSE FRoundLen(s, N, e, sticky, BBitLen(N))

\* float(n) of an int n
FromInt(n) == FRound(IF n < 0 THEN -1 ELSE 1, BFromNat(IF n < 0 THEN -n ELSE n), 0, FALSE)

\* x * y
FMul(x, y) == FRound(x.s * y.s, BMul(x.m, y.m), x.e + y.e, FALSE)

\* k more quotient bits of qr[2] / d, where qr = <<quotient so far, remainder>>
RECURSIVE BDivLoop(_, _, _)
BDivLoop(qr, d, k) ==
    IF k = 0 THEN qr
    ELSE IF BCmp(BShl(qr[2], 1), d) >= 0
    THEN BDivLoop(<<BAdd(BShl(qr[1], 1), <<1>>), BSub(BShl(qr[2], 1), d)>>, d, k - 1)
    ELSE BDivLoop(<<BShl(qr[1], 1), BShl(qr[2], 1)>>, d, k - 1)

FDivRound(s, qr, e) == FRound(s, qr[1], e, qr[2] # <<>>)

\* x / y, y # 0: 55 quotient bits behind the leading one
FDiv(x, y) ==
    IF x.m = <<>> THEN FZero
    ELSE FDivRound(x.s * y.s,
                   BDivLoop(IF BCmp(x.m, y.m) >= 0
                            THEN <<(<<1>>), BSub(x.m, y.m)>> ELSE <<(<<>>), x.m>>,
                            y.m, 55),
                   x.e - y.e - 55)

\* the largest r + (bits below k) whose square is at most N
RECURSIVE BSqrtLoop(_, _, _)
BSqrtLoop(N, r, k) ==
    IF k < 0 THEN r
    ELSE IF BCmp(BMul(BAdd(r, BShl(<<1>>, k)), BAdd(r, BShl(<<1>>, k))), N) <= 0
    THEN BSqrtLoop(N, BAdd(r, BShl(<<1>>, k)), k - 1)
    ELSE BSqrtLoop(N, r, k - 1)

FSqrtRound(N, r, e) == FRound(1, r, e, BMul(r, r) # N)

FSqrtShift(x, sh) == FSqrtRound(BShl(x.m, sh), BSqrtLoop(BShl(x.m, sh), <<>>, 53), (x.e - sh) \div 2)

\* math.sqrt(x), x >= 0: the root of m * 2^sh, 107 or 108 bits, has 54 bits
FSqrt(x) ==
    IF x.m = <<>> THEN FZero
    ELSE FSqrtShift(x, IF (x.e - 54) % 2 = 0 THEN 54 ELSE 55)

\* sx * a + sy * b, times 2^e, where c compares a with b
FAddAligned(sx, sy, a, b, e, c) ==
    FRound(IF sx = sy \/ c >= 0 THEN sx ELSE sy,
           IF sx = sy THEN BAdd(a, b) ELSE IF c >= 0 THEN BSub(a, b) ELSE BSub(b, a),
           e, FALSE)

FAddAt(x, y, e) ==
    FAddAligned(x.s, y.s, BShl(x.m, x.e - e), BShl(y.m, y.e - e), e,
                BCmp(BShl(x.m, x.e - e), BShl(y.m, y.e - e)))

\* x + y
FAdd(x, y) ==
    IF x.m = <<>> THEN y
    ELSE IF y.m = <<>> THEN x
    ELSE FAddAt(x, y, IF x.e < y.e THEN x.e ELSE y.e)

FNeg(x) == IF x.m = <<>> THEN x ELSE [x EXCEPT !.s = -x.s]

\* x - y
FSub(x, y) == FAdd(x, FNeg(y))

FSign(x) == IF x.m = <<>> THEN 0 ELSE x.s

\* -1, 0, 1 as |x| < |y|, |x| = |y|, |x| > |y|, for x and y not zero
FCmpMag(x, y) ==
    IF x.e < y.e THEN -1 ELSE IF x.e > y.e THEN 1 ELSE BCmp(x.m, y.m)

\* -1, 0, 1 as x < y, x = y, x > y
FCmp(x, y) ==
    IF FSign(x) < FSign(y) THEN -1
    ELSE IF FSign(x) > FSign(y) THEN 1
    ELSE IF FSign(x) = 0 THEN 0
    ELSE FSign(x) * FCmpMag(x, y)

FLe(x, y) == FCmp(x, y) <= 0
FLt(x, y) == FCmp(x, y) < 0
FGe(x, y) == FCmp(x, y) >= 0
FGt(x, y) == FCmp(x, y) > 0

\* int(x): truncation toward zero
FTrunc(x) ==
    IF x.m = <<>> THEN 0
    ELSE x.s * BToNat(IF x.e >= 0 THEN BShl(x.m, x.e) ELSE BShr(x.m, -x.e))

(***************************************************************************)
(* Text.  A note body is a string; the regular expressions of the engine   *)
(* are followed character by character.                                    *)
(***************************************************************************)
Char(s, i) == SubSeq(s, i, i)

UpperAlphabet == "ABCDEFGHIJKLMNOPQRSTUVWXYZ"
LowerAlphabet == "abcdefghijklmnopqrstuvwxyz"
WordAlphabet  == LowerAlphabet \o UpperAlphabet \o "0123456789_"
WordCharSet   == {Char(WordAlphabet, i) : i \in 1..Len(WordAlphabet)}
UpperCharSet  == {Char(UpperAlphabet, i) : i \in 1..Len(UpperAlphabet)}

LowerChar(c) ==
    IF c \in UpperCharSet
    THEN Char(LowerAlphabet, CHOOSE i \in 1..26 : Char(UpperAlphabet, i) = c)
    ELSE c

\* str.lower()
RECURSIVE Lower(_)
Lower(s) == IF s = "" THEN "" ELSE LowerChar(Char(s, 1)) \o Lower(SubSeq(s, 2, Len(s)))

\* re.findall(r'\b\w+\b', s): the maximal runs of word characters
RECURSIVE WordRuns(_, _, _)
WordRuns(s, i, cur) ==
    IF i > Len(s) THEN (IF cur = "" THEN <<>> ELSE <<cur>>)
    ELSE IF Char(s, i) \in WordCharSet THEN WordRuns(s, i + 1, cur \o Char(s, i))
    ELSE (IF cur = "" THEN <<>> ELSE <<cur>>) \o WordRuns(s, i + 1, "")

\* tokenize(text) of _calculate_similarity
tokenize(text) == SelectSeq(WordRuns(Lower(text), 1, ""), LAMBDA w : Len(w) > 2)

\* len(s.split()): the number of maximal runs of non-blank characters
RECURSIVE SplitCount(_, _, _)
SplitCount(s, i, inword) ==
    IF i > Len(s) THEN 0
    ELSE IF Char(s, i) = " " THEN SplitCount(s, i + 1, FALSE)
    ELSE (IF inword THEN 0 ELSE 1) + SplitCount(s, i + 1, TRUE)

StartsWithAt(s, i, pat) ==
    i + Len(pat) - 1 <= Len(s) /\ SubSeq(s, i, i + Len(pat) - 1) = pat

\* pat in s
Contains(s, pat) == \E i \in 1..(Len(s) + 1) : StartsWithAt(s, i, pat)

\* s.split(): the maximal runs of non-blank characters from index i on
RECURSIVE Split(_, _, _)
Split(s, i, cur) ==
    IF i > Len(s) THEN (IF cur = "" THEN <<>> ELSE <<cur>>)
    ELSE IF Char(s, i) = " " THEN (IF cur = "" THEN <<>> ELSE <<cur>>) \o Split(s, i + 1, "")
    ELSE Split(s, i + 1, cur \o Char(s, i))

EndsWith(s, pat) == Len(s) >= Len(pat) /\ SubSeq(s, Len(s) - Len(pat) + 1, Len(s)) = pat

\* the first index >= i of character c in s, Len(s) + 1 when there is none
RECURSIVE Find(_, _, _)
Find(s, i, c) ==
    IF i > Len(s) THEN Len(s) + 1
    ELSE IF Char(s, i) = c THEN i ELSE Find(s, i + 1, c)

\* re.findall(r'\[\[([^\]]+)\]\]', s) from index i on
RECURSIVE WikiLinks(_, _)
WikiLinks(s, i) ==
    IF i > Len(s) THEN <<>>
    ELSE IF StartsWithAt(s, i, "[[")
    THEN LET j == Find(s, i + 2, "]") IN
         IF j > i + 2 /\ StartsWithAt(s, j, "]]")
         THEN <<SubSeq(s, i + 2, j - 1)>> \o WikiLinks(s, j + 2)
         ELSE WikiLinks(s, i + 1)
    ELSE WikiLinks(s, i + 1)

\* [link[1] for link in re.findall(r'\[([^\]]+)\]\(([^)]+\.md)\)', s)] from index i on
RECURSIVE MdLinks(_, _)
MdLinks(s, i) ==
    IF i > Len(s) THEN <<>>
    ELSE IF Char(s, i) = "["
    THEN LET j == Find(s, i + 1, "]")
             k == Find(s, j + 2, ")")
         IN  IF /\ j > i + 1
                /\ StartsWithAt(s, j, "](")
                /\ k <= Len(s)
                /\ k - (j + 2) >= 4
                /\ EndsWith(SubSeq(s, j + 2, k - 1), ".md")
             THEN <<SubSeq(s, j + 2, k - 1)>> \o MdLinks(s, k + 1)
             ELSE MdLinks(s, i + 1)
    ELSE MdLinks(s, i + 1)

Range(seq) == {seq[i] : i \in 1..Len(seq)}

\* _extract_links: list(set(links)); the list's order is that of a set of
\* strings, which nothing reads, so the list is kept as that set
extract_links(content) == Range(WikiLinks(content, 1) \o MdLinks(content, 1))

\* the last index of character c in s, 0 when there is none
RECURSIVE FindLast(_, _, _)
FindLast(s, i, c) ==
    IF i = 0 THEN 0
    ELSE IF Char(s, i) = c THEN i ELSE FindLast(s, i - 1, c)

\* Path(p).stem: the last component without its last suffix
PathStem(p) ==
    LET name == SubSeq(p, FindLast(p, Len(p), "/") + 1, Len(p))
        dot  == FindLast(name, Len(name), ".")
    IN  IF dot > 1 THEN SubSeq(name, 1, dot - 1) ELSE name



(***************************************************************************)
(* Inputs: the vaults and call arguments the model draws from.             *)
(***************************************************************************)
MaxLen == 2
MaxSimLen == 3

RECURSIVE Join(_)
Join(chunks) ==
    IF chunks = <<>> THEN ""
    ELSE IF Len(chunks) = 1 THEN chunks[1]
    ELSE chunks[1] \o " " \o Join(Tail(chunks))

\* the bodies of at most n chunks, blank-separated
Bodies(chunks, n) == {Join(c) : c \in UNION {[1..k -> chunks] : k \in 0..n}}

TextChunks == {"neural", "Deep"}
LinkChunks == {"[[A]]", "[[B]]", "[see](B.md)"}
SimChunks  == {"neural", "Neural", "deep", "net", "ai"}
NoteBodies == {"neural", "Deep neural", "see [[B]]"}
Paths == {"A.md", "B.md", "sub/C.md"}

\* a vault in which two notes of different folders share the stem A, the
\* bodies that link to them, and the raw targets _normalize_link is given
StemPaths  == {"A.md", "sub/A.md", "sub/C.md"}
StemBodies == {"", "[[A]]", "[[sub/C]]", "[x](sub/A.md)"}
RawTargets == {"A", "A.md", "a", "C", "sub/C", "sub/C.md", "sub/A", "B"}

\* vaults for analyze_knowledge_clusters: notes with and without tags, a tag
\* listed twice and a tags key without value, with three to five outgoing
\* links; and eleven notes, one more than the hubs that are reported
ClusterBodies == {"", "[[A]] [[B]] [[C]]", "[[A]] [[B]] [[C]] [[D]] [[E]]"}
ListedTags    == {<<>>, <<"ai">>, <<"ai", "ai">>}
HubOrder   == <<"H01.md", "H02.md", "H03.md", "H04.md", "H05.md", "H06.md",
                "H07.md", "H08.md", "H09.md", "H10.md", "H11.md">>
HubPaths   == Range(HubOrder)
HubBodies  == {"[[H01]] [[H02]] [[B]] [[C]]", "[[H01]] [[B]] [[C]] [[D]] [[E]]"}
PermutedPaths == Paths \cup StemPaths
AllPaths   == PermutedPaths \cup HubPaths

\* the references _extract_links is given: each form, for two targets
ExtractChunks == {"[[A]]", "[[A|alias]]", "[see](A.md)", "[[A.md]]", "[[B]]", "[[B|b]]",
                  "[b](B.md)", "[[sub/C]]", "[c](sub/C.md)", "text"}

ListTags(l) == [none |-> FALSE, list |-> l]
NoneTags    == [none |-> TRUE, list |-> <<>>]

Files(bodies, tagsets) ==
    [readable : {TRUE}, content : bodies, tags : tagsets]

\* a file that open() or frontmatter.load() raises on
Unreadable == [readable |-> FALSE, content |-> "", tags |-> ListTags(<<>>)]

\* every vault holding some of the paths, each with one of the files
Vaults(paths, files) == UNION {[P -> files] : P \in SUBSET paths}

RECURSIVE Perms(_)
Perms(S) ==
    IF S = {} THEN {<<>>}
    ELSE UNION {{<<x>> \o p : p \in Perms(S \ {x})} : x \in S}

\* the float written 0.t (t tenths)
Tenth(t) == FDiv(FromInt(t), FromInt(10))

SimilarThresholds   == {Tenth(3), Tenth(10)}
DuplicateThresholds == {Tenth(7), Tenth(9)}

(***************************************************************************)
(* _calculate_similarity                                                   *)
(***************************************************************************)
\* Counter(tokens)[term]
Count(tokens, term) == Cardinality({i \in 1..Len(tokens) : tokens[i] = term})

RECURSIVE SumOver(_, _)
SumOver(S, f) ==
    IF S = {} THEN 0
    ELSE LET x == CHOOSE y \in S : TRUE IN f[x] + SumOver(S \ {x}, f)

\* The float arithmetic of _calculate_similarity is a function of the three
\* integers dot_product, sum(tf1 ** 2), sum(tf2 ** 2).  Its values over the
\* integers that bodies of at most MaxSimLen tokens give are computed once.
RECURSIVE SquareSums(_)
SquareSums(n) == {0} \cup UNION {{c * c + r : r \in SquareSums(n - c)} : c \in 1..n}

NormSquares == SquareSums(MaxSimLen) \ {0}

RECURSIVE SqrtSeq(_)
SqrtSeq(n) ==
    IF n = 0 THEN <<>>
    ELSE Append(SqrtSeq(n - 1), IF n \in NormSquares THEN FSqrt(FromInt(n)) ELSE FZero)

SqrtTable == SqrtSeq(MaxSimLen * MaxSimLen)

\* dot_product / (norm1 * norm2), lines 147-154
cosine(dot, sq1, sq2) == FDiv(FromInt(dot), FMul(SqrtTable[sq1], SqrtTable[sq2]))

CosineTable ==
    [d \in 0..(MaxSimLen * MaxSimLen), n1 \in 1..(MaxSimLen * MaxSimLen),
     n2 \in 1..(MaxSimLen * MaxSimLen) |->
        IF n1 \in NormSquares /\ n2 \in NormSquares /\ d * d <= n1 * n2
        THEN cosine(d, n1, n2) ELSE FZero]

\* tokenize is a function of the text alone: its values over the bodies the
\* model draws from are computed once
Contents == Bodies(TextChunks, MaxLen) \cup Bodies(LinkChunks, MaxLen) \cup Bodies(SimChunks, MaxSimLen)
            \cup NoteBodies \cup StemBodies \cup ClusterBodies \cup HubBodies

TokenTable == [c \in Contents |-> tokenize(c)]

\* so are the links and the word count of a body, and the stem of a path
LinkTable == [c \in Contents |-> extract_links(c)]

WordCountTable == [c \in Contents |-> SplitCount(c, 1, FALSE)]

StemTable == [p \in AllPaths |-> PathStem(p)]

\* calculate_similarity with norm1 taken for both norms
calculate_similarity_one_norm(content1, content2) ==
    LET tokens1   == TokenTable[content1]
        tokens2   == TokenTable[content2]
        all_terms == Range(tokens1 \o tokens2)
        dot       == SumOver(all_terms, [t \in all_terms |-> Count(tokens1, t) * Count(tokens2, t)])
        sq1       == SumOver(all_terms, [t \in all_terms |-> Count(tokens1, t) * Count(tokens1, t)])
    IN  IF tokens1 = <<>> \/ tokens2 = <<>> THEN FZero
        ELSE CosineTable[dot, sq1, sq1]

calculate_similarity(content1, content2) ==
    LET tokens1   == TokenTable[content1]
        tokens2   == TokenTable[content2]
        all_terms == Range(tokens1 \o tokens2)
        dot       == SumOver(all_terms, [t \in all_terms |-> Count(tokens1, t) * Count(tokens2, t)])
        sq1       == SumOver(all_terms, [t \in all_terms |-> Count(tokens1, t) * Count(tokens1, t)])
        sq2       == SumOver(all_terms, [t \in all_terms |-> Count(tokens2, t) * Count(tokens2, t)])
    IN  IF tokens1 = <<>> \/ tokens2 = <<>> THEN FZero
        ELSE IF all_terms = {} THEN FZero
        ELSE IF sq1 = 0 \/ sq2 = 0 THEN FZero
        ELSE CosineTable[dot, sq1, sq2]


(***************************************************************************)
(* The engine.  A dict is kept as what its insertion order and its items   *)
(* are: _content_index as the sequence of its entries, each with its key   *)
(* in "path"; _link_graph, _file_stats and _tag_index as functions whose   *)
(* keys were inserted in the order of _content_index.                      *)
(***************************************************************************)
VARIABLES tree, vault, built, content_index, link_graph, tag_index, file_stats, ret,
          memory, calls, globals

vars == <<tree, vault, built, content_index, link_graph, tag_index, file_stats, ret,
          memory, calls, globals>>

Idle == [op |-> "idle"]

Keys(ci) == {ci[i].path : i \in 1..Len(ci)}

Entry(ci, path) == ci[CHOOSE i \in 1..Len(ci) : ci[i].path = path]

Min(a, b) == IF a <= b THEN a ELSE b

Max(a, b) == IF a >= b THEN a ELSE b

\* sorted(s, key=..., reverse=True), where Ge(x, y) is key(x) >= key(y): the
\* sort is stable, so an element comes behind those with a larger key and
\* behind the earlier ones with an equal key
SortedDesc(s, Ge(_, _)) ==
    LET rank(i) == 1 + Cardinality({j \in 1..Len(s) :
                        Ge(s[j], s[i]) /\ (~Ge(s[i], s[j]) \/ j < i)})
    IN  [r \in 1..Len(s) |-> s[CHOOSE i \in 1..Len(s) : rank(i) = r]]

\* for tag in tags: self._tag_index[tag].append(path)
RECURSIVE AddTags(_, _, _)
AddTags(ti, tags, path) ==
    IF tags = <<>> THEN ti
    ELSE LET t == Head(tags)
             n == IF t \in DOMAIN ti THEN [ti EXCEPT ![t] = Append(@, path)]
                  ELSE ti @@ (t :> <<path>>)
         IN  AddTags(n, Tail(tags), path)

\* the body of the loop of _build_indexes for one file, lines 40-73
IndexFile(ix, path, file) ==
    IF ~file.readable THEN ix
    ELSE LET entry == [path       |-> path,
                       title      |-> StemTable[path],
                       content    |-> file.content,
                       word_count |-> WordCountTable[file.content],
                       tags       |-> file.tags]
             ix1   == [ix EXCEPT !.content_index = Append(@, entry),
                                 !.link_graph = @ @@ (path :> LinkTable[file.content])]
         IN  IF file.tags.none THEN ix1
             ELSE [ix1 EXCEPT !.tag_index = AddTags(@, file.tags.list, path),
                              !.file_stats = @ @@ (path :> 0)]

RECURSIVE IndexFiles(_, _, _)
IndexFiles(ix, files, order) ==
    IF order = <<>> THEN ix
    ELSE IndexFiles(IndexFile(ix, Head(order), files[Head(order)]), files, Tail(order))

\* _normalize_link; None is the empty string (the caller tests truthiness)
RECURSIVE FirstMatch(_, _, _)
FirstMatch(ci, link, i) ==
    IF i > Len(ci) THEN ""
    ELSE IF StemTable[ci[i].path] = link \/ ci[i].path = link \o ".md" THEN ci[i].path
    ELSE FirstMatch(ci, link, i + 1)

\* _normalize_link without the comparison of the whole path at line 118
RECURSIVE FirstStemMatch(_, _, _)
FirstStemMatch(ci, link, i) ==
    IF i > Len(ci) THEN ""
    ELSE IF StemTable[ci[i].path] = link THEN ci[i].path
    ELSE FirstStemMatch(ci, link, i + 1)

normalize_link_stem_only(ci, link) ==
    FirstStemMatch(ci, IF EndsWith(link, ".md") THEN SubSeq(link, 1, Len(link) - 3) ELSE link, 1)

normalize_link(ci, link) ==
    FirstMatch(ci, IF EndsWith(link, ".md") THEN SubSeq(link, 1, Len(link) - 3) ELSE link, 1)

\* the loops of _calculate_backlinks, lines 97-102: every (source, link) entry
\* with what the link normalizes to
link_targets(ci, lg) ==
    {<<sl[1], sl[2], normalize_link(ci, sl[2])>> :
        sl \in UNION {{<<src, l>> : l \in lg[src]} : src \in DOMAIN lg}}

count_of(targets, target) == Cardinality({t \in targets : t[3] = target})

\* backlink_counts[target] of _calculate_backlinks, lines 95-102
backlink_counts(ci, lg, target) == count_of(link_targets(ci, lg), target)

\* _calculate_backlinks, lines 104-107
stored_count(count, zero) == IF count > 0 THEN count ELSE zero

store_counts(targets, fs) ==
    [p \in DOMAIN fs |-> stored_count(count_of(targets, p), fs[p])]

calculate_backlinks(ci, lg, fs) == store_counts(link_targets(ci, lg), fs)

EmptyIndex == [content_index |-> <<>>, link_graph |-> <<>>, tag_index |-> <<>>,
               file_stats |-> <<>>]

build_indexes(files, order) ==
    LET ix == IndexFiles(EmptyIndex, files, order)
    IN  [ix EXCEPT !.file_stats = calculate_backlinks(ix.content_index, ix.link_graph, @)]

Returned(op, args, value) == [op |-> op, args |-> args, raised |-> FALSE, value |-> value]
Raised(op, args, error)   == [op |-> op, args |-> args, raised |-> TRUE, value |-> error]

\* find_similar_notes, lines 156-180
similar_candidates(ci, target_path, threshold) ==
    SelectSeq(ci, LAMBDA e : e.path # target_path
                 /\ FGe(calculate_similarity(Entry(ci, target_path).content, e.content), threshold))

similar_entry(t, e) ==
    [path         |-> e.path,
     title        |-> e.title,
     similarity   |-> calculate_similarity(t.content, e.content),
     word_count   |-> e.word_count,
     common_tags  |-> Range(t.tags.list) \cap Range(e.tags.list),
     preview      |-> IF Len(e.content) > 200 THEN SubSeq(e.content, 1, 200) \o "..."
                      ELSE e.content]

\* set(None) raises TypeError when the first entry is made
similar_raises(t, cands) ==
    cands # <<>> /\ (t.tags.none \/ \E i \in 1..Len(cands) : cands[i].tags.none)

similarities(t, cands) == [i \in 1..Len(cands) |-> similar_entry(t, cands[i])]

similar_result(args, t, cands, sorted) ==
    IF similar_raises(t, cands) THEN Raised("find_similar_notes", args, "TypeError")
    ELSE Returned("find_similar_notes", args, SubSeq(sorted, 1, Min(args[3], Len(sorted))))

\* find_similar_notes without the sort
find_similar_notes_unsorted(ci, target_path, threshold, limit) ==
    IF target_path \notin Keys(ci)
    THEN Returned("find_similar_notes", <<target_path, threshold, limit>>, <<>>)
    ELSE similar_result(<<target_path, threshold, limit>>, Entry(ci, target_path),
                        similar_candidates(ci, target_path, threshold),
                        similarities(Entry(ci, target_path),
                                     similar_candidates(ci, target_path, threshold)))

find_similar_notes(ci, target_path, threshold, limit) ==
    IF target_path \notin Keys(ci)
    THEN Returned("find_similar_notes", <<target_path, threshold, limit>>, <<>>)
    ELSE similar_result(<<target_path, threshold, limit>>, Entry(ci, target_path),
                        similar_candidates(ci, target_path, threshold),
                        SortedDesc(similarities(Entry(ci, target_path),
                                                similar_candidates(ci, target_path, threshold)),
                                   LAMBDA x, y : FGe(x.similarity, y.similarity)))

\* detect_duplicate_content, lines 224-259: the pairs in the order the two
\* loops visit them
PairsFrom(n) ==
    LET RECURSIVE row(_, _)
        row(i, j) == IF i > n THEN <<>>
                     ELSE IF j > n THEN row(i + 1, i + 2)
                     ELSE <<(<<i, j>>)>> \o row(i, j + 1)
    IN  row(1, 2)

RECURSIVE ScanPairs(_, _, _, _, _)
ScanPairs(ci, pairs, processed_pairs, duplicates, threshold) ==
    IF pairs = <<>> THEN duplicates
    ELSE LET e1      == ci[Head(pairs)[1]]
             e2      == ci[Head(pairs)[2]]
             pair_id == {e1.path, e2.path}
             sim     == calculate_similarity(e1.content, e2.content)
             dup     == [note1 |-> [path |-> e1.path, title |-> e1.title, word_count |-> e1.word_count],
                         note2 |-> [path |-> e2.path, title |-> e2.title, word_count |-> e2.word_count],
                         similarity |-> sim]
         IN  IF pair_id \in processed_pairs
             THEN ScanPairs(ci, Tail(pairs), processed_pairs, duplicates, threshold)
             ELSE ScanPairs(ci, Tail(pairs), processed_pairs \cup {pair_id},
                            IF FGe(sim, threshold) THEN Append(duplicates, dup) ELSE duplicates,
                            threshold)

\* detect_duplicate_content without the sort
detect_duplicate_content_unsorted(ci, similarity_threshold) ==
    ScanPairs(ci, PairsFrom(Len(ci)), {}, <<>>, similarity_threshold)

detect_duplicate_content(ci, similarity_threshold) ==
    SortedDesc(ScanPairs(ci, PairsFrom(Len(ci)), {}, <<>>, similarity_threshold),
               LAMBDA x, y : FGe(x.similarity, y.similarity))

\* identify_orphaned_notes, lines 261-281
LinksOf(lg, path) == IF path \in DOMAIN lg THEN lg[path] ELSE {}

is_orphan(backlink_count, outgoing_links) == backlink_count = 0 /\ outgoing_links <= 1

identify_orphaned_notes(ci, lg, fs) ==
    LET stats == SelectSeq(ci, LAMBDA e : e.path \in DOMAIN fs)
        hits  == SelectSeq(stats, LAMBDA e : is_orphan(fs[e.path], Cardinality(LinksOf(lg, e.path))))
        orphans == [i \in 1..Len(hits) |->
                      [path |-> hits[i].path, title |-> hits[i].title,
                       word_count |-> hits[i].word_count,
                       outgoing_links |-> Cardinality(LinksOf(lg, hits[i].path)),
                       tags |-> hits[i].tags]]
    IN  SortedDesc(orphans, LAMBDA x, y : x.word_count >= y.word_count)

\* suggest_missing_backlinks, lines 182-222
Float05 == FDiv(FromInt(1), FromInt(2))

partial_matches(title_words, note_content) ==
    Len(SelectSeq(title_words, LAMBDA word : Len(word) > 3 /\ Contains(note_content, word)))

already_linked(lg, note_path, file_path) ==
    \E link \in LinksOf(lg, note_path) : Contains(Lower(link), Lower(PathStem(file_path)))

suggested(lg, note, data) ==
    /\ data.path # note.path
    /\ \/ Contains(Lower(note.content), Lower(data.title))
       \/ partial_matches(Split(Lower(data.title), 1, ""), Lower(note.content)) >= 2
    /\ ~already_linked(lg, note.path, data.path)

relevance_score(matches, title_words, title_in_content) ==
    IF title_in_content
    THEN FAdd(FDiv(FromInt(matches), FromInt(Max(Len(title_words), 1))), Float05)
    ELSE FDiv(FromInt(matches), FromInt(Max(Len(title_words), 1)))

suggestion(fs, note, data) ==
    [target_note     |-> data.path,
     target_title    |-> data.title,
     relevance_score |-> relevance_score(
                             partial_matches(Split(Lower(data.title), 1, ""), Lower(note.content)),
                             Split(Lower(data.title), 1, ""),
                             Contains(Lower(note.content), Lower(data.title))),
     backlink_count  |-> fs[data.path],
     common_tags     |-> Range(note.tags.list) \cap Range(data.tags.list)]

\* the dict of lines 213-220 reads _file_stats[file_path] (KeyError) before it
\* takes set() of the two tag values (TypeError on None)
suggestion_raises(fs, note, data) == data.path \notin DOMAIN fs \/ note.tags.none \/ data.tags.none

suggestions_result(args, fs, note, hits) ==
    IF \E i \in 1..Len(hits) : suggestion_raises(fs, note, hits[i])
    THEN Raised("suggest_missing_backlinks", args,
                IF SelectSeq(hits, LAMBDA d : suggestion_raises(fs, note, d))[1].path \notin DOMAIN fs
                THEN "KeyError" ELSE "TypeError")
    ELSE Returned("suggest_missing_backlinks", args,
                  SubSeq(SortedDesc([i \in 1..Len(hits) |-> suggestion(fs, note, hits[i])],
                                    LAMBDA x, y : FGe(x.relevance_score, y.relevance_score)),
                         1, Min(10, Len(hits))))

\* suggest_missing_backlinks without the test of lines 184-185: the lookup of
\* line 187 raises KeyError
suggest_missing_backlinks_unchecked(ci, lg, fs, note_path) ==
    IF note_path \notin Keys(ci)
    THEN Raised("suggest_missing_backlinks", <<note_path>>, "KeyError")
    ELSE suggestions_result(<<note_path>>, fs, Entry(ci, note_path),
                            SelectSeq(ci, LAMBDA data : suggested(lg, Entry(ci, note_path), data)))

suggest_missing_backlinks(ci, lg, fs, note_path) ==
    IF note_path \notin Keys(ci)
    THEN Returned("suggest_missing_backlinks", <<note_path>>, <<>>)
    ELSE suggestions_result(<<note_path>>, fs, Entry(ci, note_path),
                            SelectSeq(ci, LAMBDA data : suggested(lg, Entry(ci, note_path), data)))

\* get_vault_health_report, lines 318-349.  The scores are floats or ints in
\* Python; a score is kept as the float of the same value, connectivity (an
\* int in every case) as an integer.
\* a / b of two ints raises ZeroDivisionError when b is 0; the error is kept
\* as a value, which every later step of the computation hands on
ZeroDivisionError == [s |-> 0, m |-> <<>>, e |-> 0]

Failed(x) == x = ZeroDivisionError

true_div(a, b) == IF b = 0 THEN ZeroDivisionError ELSE FDiv(FromInt(a), FromInt(b))

\* connectivity_ratio without the test of total_notes
connectivity_ratio_unguarded(notes_with_backlinks, total_notes) ==
    true_div(notes_with_backlinks, total_notes)

connectivity_ratio(notes_with_backlinks, total_notes) ==
    IF total_notes > 0 THEN true_div(notes_with_backlinks, total_notes) ELSE FZero

\* min(100, int(connectivity_ratio * 100))
connectivity_score(ratio) ==
    IF Failed(ratio) THEN 0 ELSE Min(100, FTrunc(FMul(ratio, FromInt(100))))

\* max(0, x) and min(100, x) of a float x
FMax0(x) == IF FGe(FZero, x) THEN FZero ELSE x

FMin100(x, hundred) == IF FLe(hundred, x) THEN hundred ELSE x

penalty_of(quotient, weight) ==
    IF Failed(quotient) THEN quotient
    ELSE FMin100(FMax0(FSub(FromInt(100), FMul(quotient, FromInt(weight)))), FromInt(100))

\* min(100, max(0, 100 - (n / max(total_notes, 1) * weight)))
penalty_score(n, total_notes, weight) == penalty_of(true_div(n, Max(total_notes, 1)), weight)

organization_score(orphans, total_notes) == penalty_score(orphans, total_notes, 100)

\* uniqueness_score with the weight of organization_score
uniqueness_score_weight_100(duplicates, total_notes) == penalty_score(duplicates, total_notes, 100)

uniqueness_score(duplicates, total_notes) == penalty_score(duplicates, total_notes, 200)

\* The scores are functions of a count and of the number of notes alone:
\* their values over the counts a vault of the model can give, computed once
MaxCount == Max(Cardinality(Paths), (Cardinality(Paths) * (Cardinality(Paths) - 1)) \div 2)

ScoreTable ==
    [n \in 0..MaxCount, total \in 0..MaxCount |->
        [ratio        |-> connectivity_ratio(n, total),
         connectivity |-> connectivity_score(connectivity_ratio(n, total)),
         organization |-> organization_score(n, total),
         uniqueness   |-> uniqueness_score(n, total)]]

Float03 == Tenth(3)
Float08 == Tenth(8)
DefaultDuplicateThreshold == Tenth(7)

\* _generate_health_recommendations, lines 351-367
\* generate_health_recommendations with the two connectivity rules before the
\* two count rules
generate_health_recommendations_ratio_first(orphans, duplicates, connectivity) ==
    (IF FLt(connectivity, Float03) THEN <<[rule |-> "add_cross_references", n |-> 0]>> ELSE <<>>)
    \o (IF FGt(connectivity, Float08) THEN <<[rule |-> "organize_hubs", n |-> 0]>> ELSE <<>>)
    \o (IF Len(orphans) > 0 THEN <<[rule |-> "connect_orphans", n |-> Len(orphans)]>> ELSE <<>>)
    \o (IF Len(duplicates) > 0 THEN <<[rule |-> "review_duplicates", n |-> Len(duplicates)]>> ELSE <<>>)

generate_health_recommendations(orphans, duplicates, connectivity) ==
    (IF Len(orphans) > 0 THEN <<[rule |-> "connect_orphans", n |-> Len(orphans)]>> ELSE <<>>)
    \o (IF Len(duplicates) > 0 THEN <<[rule |-> "review_duplicates", n |-> Len(duplicates)]>> ELSE <<>>)
    \o (IF FLt(connectivity, Float03) THEN <<[rule |-> "add_cross_references", n |-> 0]>> ELSE <<>>)
    \o (IF FGt(connectivity, Float08) THEN <<[rule |-> "organize_hubs", n |-> 0]>> ELSE <<>>)

\* recent_activity compares file times with the clock and is left out;
\* analyze_knowledge_clusters is called and its result dropped (line 322)
health_report(orphans, duplicates, total_notes, scores) ==
    [overview |-> [total_notes |-> total_notes,
                   connectivity_ratio |-> scores[1].ratio,
                   orphaned_notes |-> Len(orphans),
                   potential_duplicates |-> Len(duplicates)],
     health_scores |-> [connectivity |-> scores[1].connectivity,
                        organization |-> scores[2].organization,
                        uniqueness   |-> scores[3].uniqueness],
     recommendations |-> generate_health_recommendations(orphans, duplicates, scores[1].ratio),
     top_issues |-> SubSeq(orphans, 1, Min(5, Len(orphans)))
                    \o SubSeq(duplicates, 1, Min(3, Len(duplicates)))]

health_scores(notes_with_backlinks, orphaned, duplicated, total_notes) ==
    [i \in 1..3 |-> ScoreTable[<<notes_with_backlinks, orphaned, duplicated>>[i], total_notes]]

health_result(orphans, duplicates, total_notes, scores) ==
    IF Failed(scores[1].ratio) \/ Failed(scores[2].organization) \/ Failed(scores[3].uniqueness)
    THEN Raised("get_vault_health_report", <<>>, "ZeroDivisionError")
    ELSE Returned("get_vault_health_report", <<>>,
                  health_report(orphans, duplicates, total_notes, scores))

health_counts(orphans, duplicates, total_notes, notes_with_backlinks) ==
    health_result(orphans, duplicates, total_notes,
                  health_scores(notes_with_backlinks, Len(orphans), Len(duplicates), total_notes))

get_vault_health_report(ci, lg, fs) ==
    health_counts(identify_orphaned_notes(ci, lg, fs),
                  detect_duplicate_content(ci, DefaultDuplicateThreshold),
                  Len(ci),
                  Cardinality({p \in DOMAIN fs : fs[p] > 0}))

\* analyze_knowledge_clusters, lines 283-316
MinClusterSize == 3
MinHubConnections == 5
MaxHubs == 10

\* sum(self._content_index[f]['word_count'] for f in files)
RECURSIVE word_count_sum(_, _)
word_count_sum(ci, files) ==
    IF files = <<>> THEN 0
    ELSE Entry(ci, Head(files)).word_count + word_count_sum(ci, Tail(files))

\* the quotients of lines 294 and 315 for the sums and lengths of the vaults
MaxListed == 2 * Cardinality(Paths)
MaxSum    == 5 * MaxListed
MeanTable == [total \in 0..MaxSum, n \in 1..Len(HubOrder) |-> true_div(total, n)]

tag_cluster(ci, files) ==
    [note_count     |-> Len(files),
     notes          |-> files,
     avg_word_count |-> MeanTable[word_count_sum(ci, files), Len(files)]]

\* lines 287-295
tag_clusters(ci, ti) ==
    [tag \in {t \in DOMAIN ti : Len(ti[t]) >= MinClusterSize} |-> tag_cluster(ci, ti[tag])]

outgoing(lg, path) == IF path \in DOMAIN lg THEN Cardinality(lg[path]) ELSE 0

hub(e, backlinks, outgoing_links) ==
    [path              |-> e.path,
     title             |-> e.title,
     backlinks         |-> backlinks,
     outgoing_links    |-> outgoing_links,
     total_connections |-> backlinks + outgoing_links]

\* lines 298-308: _file_stats holds the paths in the order of _content_index
hub_entries(ci, lg, fs) ==
    SelectSeq(ci, LAMBDA e : e.path \in DOMAIN fs
                 /\ fs[e.path] + outgoing(lg, e.path) >= MinHubConnections)

hubs(ci, lg, fs) ==
    LET entries == hub_entries(ci, lg, fs)
    IN  [i \in 1..Len(entries) |->
            hub(entries[i], fs[entries[i].path], outgoing(lg, entries[i].path))]

\* line 312
knowledge_hubs(found) ==
    SubSeq(SortedDesc(found, LAMBDA x, y : x.total_connections >= y.total_connections),
           1, Min(MaxHubs, Len(found)))

analyze_knowledge_clusters(ci, lg, ti, fs) ==
    [tag_clusters   |-> tag_clusters(ci, ti),
     knowledge_hubs |-> knowledge_hubs(hubs(ci, lg, fs)),
     total_notes    |-> Len(ci),
     total_links    |-> SumOver(DOMAIN lg, [p \in DOMAIN lg |-> Cardinality(lg[p])]),
     avg_backlinks  |-> MeanTable[SumOver(DOMAIN fs, fs), Max(Cardinality(DOMAIN fs), 1)]]

(***************************************************************************)
(* Actions                                                                 *)
(***************************************************************************)
Limits == {1, 10}

\* VaultIntelligence(vault_path): rglob yields the files in an order of the
\* file system's choosing
PermTable == [S \in SUBSET PermutedPaths |-> Perms(S)]

Reverse(s) == [i \in 1..Len(s) |-> s[Len(s) + 1 - i]]

\* the orders of rglob (line 39) that are drawn: every order of a small
\* vault, and the ascending and the descending order of the eleven notes
rglob(paths) ==
    IF paths \subseteq PermutedPaths THEN PermTable[paths] ELSE {HubOrder, Reverse(HubOrder)}

\* the directory of the vault: its root, and what the name .obsidian_mcp in
\* the root is; the notes in it are the variable vault
Trees == [root : {"missing", "dir"}, obsidian_mcp : {"absent", "dir", "file"}]
         \ [root : {"missing"}, obsidian_mcp : {"dir", "file"}]

EmptyRoot == [root |-> "dir", obsidian_mcp |-> "absent"]

\* self.cache_path.parent.mkdir(exist_ok=True), line 26: the error it raises,
\* "" for none
mkdir_error(t) ==
    IF t.root = "missing" THEN "FileNotFoundError"
    ELSE IF t.obsidian_mcp = "file" THEN "FileExistsError"
    ELSE ""

mkdir(t) == IF mkdir_error(t) = "" THEN [t EXCEPT !.obsidian_mcp = "dir"] ELSE t

\* VaultIntelligence(vault_path), lines 23-33
Construct ==
    /\ UNCHANGED <<memory, calls, globals>>
    /\ ~built /\ ret.op = "idle"
    /\ IF mkdir_error(tree) # ""
       THEN /\ ret' = Raised("__init__", <<>>, mkdir_error(tree))
            /\ UNCHANGED <<tree, vault, built, content_index, link_graph, tag_index, file_stats>>
       ELSE /\ \E order \in rglob(DOMAIN vault) :
                 LET ix == build_indexes(vault, order) IN
                 /\ content_index' = ix.content_index
                 /\ link_graph' = ix.link_graph
                 /\ tag_index' = ix.tag_index
                 /\ file_stats' = ix.file_stats
            /\ built' = TRUE
            /\ tree' = mkdir(tree)
            /\ UNCHANGED <<vault, ret>>

FindSimilarNotes ==
    /\ UNCHANGED <<memory, calls, globals>>
    /\ built /\ ret.op = "idle"
    /\ \E target_path \in Paths, threshold \in SimilarThresholds, limit \in Limits :
         ret' = find_similar_notes(content_index, target_path, threshold, limit)
    /\ UNCHANGED <<tree, vault, built, content_index, link_graph, tag_index, file_stats>>

DetectDuplicateContent ==
    /\ UNCHANGED <<memory, calls, globals>>
    /\ built /\ ret.op = "idle"
    /\ \E threshold \in DuplicateThresholds :
         ret' = Returned("detect_duplicate_content", <<threshold>>,
                         detect_duplicate_content(content_index, threshold))
    /\ UNCHANGED <<tree, vault, built, content_index, link_graph, tag_index, file_stats>>

IdentifyOrphanedNotes ==
    /\ UNCHANGED <<memory, calls, globals>>
    /\ built /\ ret.op = "idle"
    /\ ret' = Returned("identify_orphaned_notes", <<>>,
                       identify_orphaned_notes(content_index, link_graph, file_stats))
    /\ UNCHANGED <<tree, vault, built, content_index, link_graph, tag_index, file_stats>>

GetVaultHealthReport ==
    /\ UNCHANGED <<memory, calls, globals>>
    /\ built /\ ret.op = "idle"
    /\ ret' = get_vault_health_report(content_index, link_graph, file_stats)
    /\ UNCHANGED <<tree, vault, built, content_index, link_graph, tag_index, file_stats>>

SuggestMissingBacklinks ==
    /\ UNCHANGED <<memory, calls, globals>>
    /\ built /\ ret.op = "idle"
    /\ \E note_path \in Paths :
         ret' = suggest_missing_backlinks(content_index, link_graph, file_stats, note_path)
    /\ UNCHANGED <<tree, vault, built, content_index, link_graph, tag_index, file_stats>>

\* the pure method _calculate_similarity on two bodies
CalculateSimilarity ==
    /\ UNCHANGED <<memory, calls, globals>>
    /\ ret.op = "idle"
    /\ \E content1 \in Bodies(SimChunks, MaxSimLen), content2 \in Bodies(SimChunks, MaxSimLen) :
         ret' = Returned("_calculate_similarity", <<content1, content2>>,
                         calculate_similarity(content1, content2))
    /\ UNCHANGED <<tree, vault, built, content_index, link_graph, tag_index, file_stats>>

(***************************************************************************)
(* persistent_memory.py.  memory is the database memory.db of the vault    *)
(* with the number of PersistentMemory instances made on the vault; every  *)
(* instance opens the same file.  A row keeps the columns the methods      *)
(* read back; the dates, which come from the clock, are left out, and a    *)
(* later row has the later date.  calls records, for each name, how many   *)
(* store_concept calls were made for it and the id the first one returned. *)
(***************************************************************************)
MaxStores == 4
MaxInstances == 2

ConceptNames == {"Learning", "Deep Learning", "learning"}
Descriptions == {"", "d"}
Strengths == {Tenth(3), FromInt(2)}

NoMemory == [instances |-> 0, concepts |-> <<>>, concept_relationships |-> <<>>]
NoCalls == [name \in ConceptNames |-> [count |-> 0, first_id |-> 0]]

\* the rowid SQLite gives a new row of an INTEGER PRIMARY KEY table
RECURSIVE MaxId(_)
MaxId(rows) == IF rows = <<>> THEN 0 ELSE Max(Head(rows).id, MaxId(Tail(rows)))

lastrowid(rows) == MaxId(rows) + 1

\* s LIKE p from the indexes i and j on: % is any run of characters, _ any one
\* character, and letters match whatever their case
RECURSIVE Like(_, _, _, _)
Like(s, i, p, j) ==
    IF j > Len(p) THEN i > Len(s)
    ELSE IF Char(p, j) = "%" THEN Like(s, i, p, j + 1) \/ (i <= Len(s) /\ Like(s, i + 1, p, j))
    ELSE /\ i <= Len(s)
         /\ (Char(p, j) = "_" \/ LowerChar(Char(s, i)) = LowerChar(Char(p, j)))
         /\ Like(s, i + 1, p, j + 1)

\* name LIKE '%concept_name%' over the names the model draws from
LikeTable == [name \in ConceptNames, concept_name \in ConceptNames |->
                 Like(name, 1, "%" \o concept_name \o "%", 1)]

\* UPDATE concepts ... WHERE id = concept_id, lines 144-148
update_concept(concepts, concept_id, description) ==
    [i \in 1..Len(concepts) |->
        IF concepts[i].id = concept_id
        THEN [concepts[i] EXCEPT !.access_count = @ + 1, !.description = description]
        ELSE concepts[i]]

\* store_concept with an INSERT whether or not the name is stored; the UNIQUE
\* constraint is left out
store_concept_insert_only(db, name, description, category) ==
    [db |-> [db EXCEPT !.concepts = Append(@, [id |-> lastrowid(db.concepts), name |-> name,
                                               description |-> description, category |-> category,
                                               access_count |-> 1])],
     id |-> lastrowid(db.concepts)]

\* store_concept, lines 132-156: the database after the call and the id returned
store_concept(db, name, description, category) ==
    IF \E i \in 1..Len(db.concepts) : db.concepts[i].name = name
    THEN [db |-> [db EXCEPT !.concepts =
                     update_concept(@, SelectSeq(db.concepts, LAMBDA r : r.name = name)[1].id,
                                    description)],
          id |-> SelectSeq(db.concepts, LAMBDA r : r.name = name)[1].id]
    ELSE [db |-> [db EXCEPT !.concepts = Append(@, [id |-> lastrowid(db.concepts), name |-> name,
                                                    description |-> description, category |-> category,
                                                    access_count |-> 1])],
          id |-> lastrowid(db.concepts)]

\* min(1.0, (old_strength + strength) / 2), line 184
new_strength(old_strength, strength) ==
    IF FLe(FromInt(1), FDiv(FAdd(old_strength, strength), FromInt(2)))
    THEN FromInt(1)
    ELSE FDiv(FAdd(old_strength, strength), FromInt(2))

\* the WHERE of lines 173-177 with its first alternative alone
same_pair_ordered(row, id1, id2) == row.concept1_id = id1 /\ row.concept2_id = id2

\* the WHERE of lines 173-177
same_pair(row, id1, id2) ==
    \/ (row.concept1_id = id1 /\ row.concept2_id = id2)
    \/ (row.concept1_id = id2 /\ row.concept2_id = id1)

update_relationship(rows, rel_id, strength, context) ==
    [i \in 1..Len(rows) |->
        IF rows[i].id = rel_id
        THEN [rows[i] EXCEPT !.strength = new_strength(@, strength), !.context = context]
        ELSE rows[i]]

\* lines 172-198 of store_relationship, for two different ids
relate(rows, id1, id2, relationship_type, strength, context) ==
    IF \E i \in 1..Len(rows) : same_pair(rows[i], id1, id2)
    THEN update_relationship(rows, SelectSeq(rows, LAMBDA r : same_pair(r, id1, id2))[1].id,
                             strength, context)
    ELSE Append(rows, [id |-> lastrowid(rows), concept1_id |-> id1, concept2_id |-> id2,
                       relationship_type |-> relationship_type, strength |-> strength,
                       context |-> context])

related(db, ids, relationship_type, strength, context) ==
    IF ids[1] = ids[2] THEN [db |-> db, value |-> FALSE]
    ELSE [db |-> [db EXCEPT !.concept_relationships =
                     relate(@, ids[1], ids[2], relationship_type, strength, context)],
          value |-> TRUE]

\* store_relationship, lines 158-202: the two store_concept calls of lines
\* 166-167 commit on their own connections before the rest runs
store_relationship(db, concept1, concept2, relationship_type, strength, context) ==
    related(store_concept(store_concept(db, concept1, "", "").db, concept2, "", "").db,
            <<store_concept(db, concept1, "", "").id,
              store_concept(store_concept(db, concept1, "", "").db, concept2, "", "").id>>,
            relationship_type, strength, context)

\* the rows of lines 257-265 for one concept: ORDER BY strength DESC,
\* created_date DESC
relationships_of(db, concept_id) ==
    SortedDesc(SelectSeq(db.concept_relationships,
                         LAMBDA r : r.concept1_id = concept_id \/ r.concept2_id = concept_id),
               LAMBDA x, y : FGt(x.strength, y.strength)
                             \/ (x.strength = y.strength /\ x.id >= y.id))

concept_record(row) ==
    [name |-> row.name, description |-> row.description, category |-> row.category,
     access_count |-> row.access_count]

\* recall_concept_history, lines 240-305, without the insights, which no
\* modelled method stores: fetchone gives the first row, by rowid, whose name
\* is LIKE '%concept_name%'
recall_concept_history(db, concept_name) ==
    IF \A i \in 1..Len(db.concepts) : ~LikeTable[db.concepts[i].name, concept_name]
    THEN [error |-> "No information found for concept"]
    ELSE [concept |-> concept_record(
                          SelectSeq(db.concepts, LAMBDA r : LikeTable[r.name, concept_name])[1]),
          relationships |-> relationships_of(db,
                          SelectSeq(db.concepts, LAMBDA r : LikeTable[r.name, concept_name])[1].id)]

\* the number of store_concept calls the database shows
RECURSIVE TotalAccess(_)
TotalAccess(concepts) ==
    IF concepts = <<>> THEN 0 ELSE Head(concepts).access_count + TotalAccess(Tail(concepts))

counted(c, name, id) ==
    [c EXCEPT ![name] = [count |-> @.count + 1,
                         first_id |-> IF @.count = 0 THEN id ELSE @.first_id]]

\* PersistentMemory(vault_path), lines 38-42: the directory of the database is
\* made as the engine makes it, and the tables are created if they are not there
NewPersistentMemory ==
    /\ ret.op = "idle"
    /\ memory.instances < MaxInstances
    /\ IF mkdir_error(tree) # ""
       THEN /\ ret' = Raised("PersistentMemory", <<>>, mkdir_error(tree))
            /\ UNCHANGED <<tree, memory>>
       ELSE /\ memory' = [memory EXCEPT !.instances = @ + 1]
            /\ tree' = mkdir(tree)
            /\ ret' = Returned("PersistentMemory", <<>>, memory.instances + 1)
    /\ UNCHANGED <<vault, built, content_index, link_graph, tag_index, file_stats, calls, globals>>

StoreConcept ==
    /\ ret.op = "idle"
    /\ TotalAccess(memory.concepts) < MaxStores
    /\ \E self \in 1..memory.instances, name \in ConceptNames, description \in Descriptions :
         /\ memory' = store_concept(memory, name, description, "").db
         /\ calls' = counted(calls, name, store_concept(memory, name, description, "").id)
         /\ ret' = Returned("store_concept", <<name, description, self>>,
                            store_concept(memory, name, description, "").id)
    /\ UNCHANGED <<tree, vault, built, content_index, link_graph, tag_index, file_stats, globals>>

StoreRelationship ==
    /\ ret.op = "idle"
    /\ TotalAccess(memory.concepts) + 2 <= MaxStores
    /\ \E self \in 1..memory.instances, concept1 \in ConceptNames, concept2 \in ConceptNames,
          strength \in Strengths :
         /\ memory' = store_relationship(memory, concept1, concept2, "related", strength, "c").db
         /\ calls' = counted(counted(calls, concept1, store_concept(memory, concept1, "", "").id),
                             concept2,
                             store_concept(store_concept(memory, concept1, "", "").db,
                                           concept2, "", "").id)
         /\ ret' = Returned("store_relationship", <<concept1, concept2, strength, self>>,
                            store_relationship(memory, concept1, concept2, "related",
                                               strength, "c").value)
    /\ UNCHANGED <<tree, vault, built, content_index, link_graph, tag_index, file_stats, globals>>

RecallConceptHistory ==
    /\ ret.op = "idle"
    /\ \E self \in 1..memory.instances, concept_name \in ConceptNames :
         ret' = Returned("recall_concept_history", <<concept_name, self>>,
                         recall_concept_history(memory, concept_name))
    /\ UNCHANGED <<tree, vault, built, content_index, link_graph, tag_index, file_stats,
                   memory, calls, globals>>

(***************************************************************************)
(* The tools of obsidian_server.py.  The module globals hold the engine    *)
(* once ensure_vault_exists has made it: built says vault_intelligence is  *)
(* not None, and the index variables are that engine's.  globals holds the *)
(* module globals of obsidian_server.py, productivity_enhancer.py and      *)
(* knowledge_organizer.py: None, or the object made for them, which is     *)
(* known by the number of its construction and the path it was given.      *)
(***************************************************************************)
None == [id |-> 0]

VAULT_PATH == "/vault"
VaultPathArguments == {VAULT_PATH, "/other"}

EnhancerNames == <<"workflow_automation", "goal_tracker", "focus_session_manager",
                   "resource_optimizer">>
SystemNames   == <<"knowledge_organizer", "progress_tracker", "content_repurposer">>
ServerNames   == <<"productivity_features", "revolutionary_intelligence", "productivity_system",
                   "quick_actions", "persistent_memory", "vault_intelligence",
                   "proactive_assistant">>

NoGlobals == [n \in Range(EnhancerNames \o SystemNames \o ServerNames) |-> None]
                 @@ [made |-> 0]

\* name = Class(vault_path), whatever name holds
create_always(g, name, vault_path) ==
    [g EXCEPT ![name] = [id |-> g.made + 1, vault_path |-> vault_path], !.made = @ + 1]

\* if name is None: name = Class(vault_path)
create(g, name, vault_path) ==
    IF g[name] = None
    THEN [g EXCEPT ![name] = [id |-> g.made + 1, vault_path |-> vault_path], !.made = @ + 1]
    ELSE g

RECURSIVE create_all(_, _, _)
create_all(g, names, vault_path) ==
    IF names = <<>> THEN g
    ELSE create_all(create(g, Head(names), vault_path), Tail(names), vault_path)

\* the dictionary a factory returns
components(g, names) == [n \in Range(names) |-> g[n]]

\* get_productivity_enhancer, productivity_enhancer.py lines 485-503
get_productivity_enhancer(g, vault_path) == create_all(g, EnhancerNames, vault_path)

\* get_productivity_system, knowledge_organizer.py lines 298-313
get_productivity_system(g, vault_path) == create_all(g, SystemNames, vault_path)

\* lines 66-67
ensure_productivity_system(g) ==
    IF g.productivity_system = None
    THEN [get_productivity_system(g, VAULT_PATH) EXCEPT !.productivity_system =
              components(get_productivity_system(g, VAULT_PATH), SystemNames)]
    ELSE g

\* lines 74-81: PersistentMemory and VaultIntelligence make .obsidian_mcp
\* first, and what mkdir raises ends the call
ensure_hybrid(g, t) ==
    IF (g.persistent_memory = None \/ g.vault_intelligence = None) /\ mkdir_error(t) # ""
    THEN g
    ELSE create_all(g, <<"persistent_memory", "vault_intelligence", "proactive_assistant">>,
                    VAULT_PATH)

\* the globals after ensure_vault_exists, lines 48-83, in the directory t
ensured(g, t) ==
    IF t.root = "missing" THEN g
    ELSE ensure_hybrid(
             create(ensure_productivity_system(
                        create_all(g, <<"productivity_features", "revolutionary_intelligence">>,
                                   VAULT_PATH)),
                    "quick_actions", VAULT_PATH),
             t)
ServerPaths == {"A.md", "B.md"}
PathArguments == {"A", "B.md"}
WrittenContents == {"neural", "Deep neural"}

\* get_note_path, lines 85-89, relative to the vault root
get_note_path(relative_path) ==
    IF EndsWith(relative_path, ".md") THEN relative_path ELSE relative_path \o ".md"

VaultPathNotFound == "Error: Vault path not found"

Engine == [content_index |-> content_index, link_graph |-> link_graph,
           tag_index |-> tag_index, file_stats |-> file_stats]

\* the engines vault_intelligence may hold after lines 77-78
EnsuredEngines ==
    IF built THEN {Engine}
    ELSE {build_indexes(vault, order) : order \in PermTable[DOMAIN vault]}

\* ensure_vault_exists, lines 48-83, when it returns True with the engine ix
ensure_vault_exists(ix) ==
    /\ ix \in EnsuredEngines
    /\ content_index' = ix.content_index
    /\ link_graph' = ix.link_graph
    /\ tag_index' = ix.tag_index
    /\ file_stats' = ix.file_stats
    /\ built' = TRUE
    /\ tree' = IF built THEN tree ELSE mkdir(tree)
    /\ globals' = ensured(globals, tree)

\* ensure_vault_exists when it returns False (lines 53-56) or the
\* construction of line 78 raises: the tool's outcome
ensure_fails(tool, args) ==
    IF tree.root = "missing" THEN Returned(tool, args, VaultPathNotFound)
    ELSE Raised(tool, args, mkdir_error(tree))

Ensurable == tree.root # "missing" /\ (built \/ mkdir_error(tree) = "")

\* the text of find_similar_notes, lines 1990-2007: at most 6 notes; the
\* similarity is printed to two decimals, which is left out
similar_response(result) ==
    IF result.raised THEN [error |-> "Error finding similar notes"]
    ELSE [notes |-> [i \in 1..Min(6, Len(result.value)) |->
                       [title       |-> result.value[i].title,
                        path        |-> result.value[i].path,
                        preview     |-> SubSeq(result.value[i].preview, 1,
                                               Min(100, Len(result.value[i].preview))),
                        common_tags |-> result.value[i].common_tags]]]

\* the text of analyze_vault_health, lines 2017-2034; the ratio is printed as a
\* percentage, which is left out
health_response(result) ==
    IF result.raised THEN [error |-> "Error analyzing vault health"]
    ELSE [total_notes     |-> result.value.overview.total_notes,
          connectivity    |-> result.value.health_scores.connectivity,
          organization    |-> result.value.health_scores.organization,
          recommendations |-> SubSeq(result.value.recommendations, 1,
                                     Min(3, Len(result.value.recommendations)))]

\* the tool find_similar_notes of the server, lines 1978-2007
ServerFindSimilarNotes ==
    /\ UNCHANGED <<memory, calls>>
    /\ ret.op = "idle"
    /\ \E note_path \in ServerPaths, threshold \in SimilarThresholds :
         IF ~Ensurable
         THEN /\ ret' = ensure_fails("server.find_similar_notes", <<note_path, threshold>>)
              /\ globals' = ensured(globals, tree)
              /\ UNCHANGED <<tree, vault, built, content_index, link_graph, tag_index, file_stats>>
         ELSE /\ \E ix \in EnsuredEngines :
                   /\ ensure_vault_exists(ix)
                   /\ ret' = Returned("server.find_similar_notes", <<note_path, threshold>>,
                                      similar_response(find_similar_notes(ix.content_index, note_path,
                                                                          threshold, 10)))
              /\ UNCHANGED vault

\* the tool analyze_vault_health, lines 2009-2036
AnalyzeVaultHealth ==
    /\ UNCHANGED <<memory, calls>>
    /\ ret.op = "idle"
    /\ IF ~Ensurable
       THEN /\ ret' = ensure_fails("server.analyze_vault_health", <<>>)
            /\ globals' = ensured(globals, tree)
            /\ UNCHANGED <<tree, vault, built, content_index, link_graph, tag_index, file_stats>>
       ELSE /\ \E ix \in EnsuredEngines :
                 /\ ensure_vault_exists(ix)
                 /\ ret' = Returned("server.analyze_vault_health", <<>>,
                                    health_response(get_vault_health_report(
                                        ix.content_index, ix.link_graph, ix.file_stats)))
            /\ UNCHANGED vault

\* the tool write_note, lines 228-272, with no tags and no title: the file
\* holds the front matter keys created and updated, and the content
WriteNote ==
    /\ UNCHANGED <<memory, calls>>
    /\ ret.op = "idle"
    /\ \E path \in PathArguments, content \in WrittenContents :
         IF ~Ensurable
         THEN /\ ret' = ensure_fails("server.write_note", <<path, content>>)
              /\ globals' = ensured(globals, tree)
              /\ UNCHANGED <<tree, vault, built, content_index, link_graph, tag_index, file_stats>>
         ELSE /\ \E ix \in EnsuredEngines : ensure_vault_exists(ix)
              /\ vault' = [p \in DOMAIN vault \cup {get_note_path(path)} |->
                             IF p = get_note_path(path)
                             THEN [readable |-> TRUE, content |-> content, tags |-> ListTags(<<>>)]
                             ELSE vault[p]]
              /\ ret' = Returned("server.write_note", <<path, content>>, "Note saved")

\* ensure_vault_exists, lines 48-83, called by itself
EnsureVaultExists ==
    /\ UNCHANGED <<memory, calls>>
    /\ ret.op = "idle"
    /\ IF ~Ensurable
       THEN /\ ret' = IF tree.root = "missing"
                      THEN Returned("ensure_vault_exists", <<>>, FALSE)
                      ELSE Raised("ensure_vault_exists", <<>>, mkdir_error(tree))
            /\ globals' = ensured(globals, tree)
            /\ UNCHANGED <<tree, vault, built, content_index, link_graph, tag_index, file_stats>>
       ELSE /\ \E ix \in EnsuredEngines : ensure_vault_exists(ix)
            /\ ret' = Returned("ensure_vault_exists", <<>>, TRUE)
            /\ UNCHANGED vault

GetProductivityEnhancer ==
    /\ ret.op = "idle"
    /\ \E vault_path \in VaultPathArguments :
         /\ globals' = get_productivity_enhancer(globals, vault_path)
         /\ ret' = Returned("get_productivity_enhancer", <<vault_path>>,
                            components(get_productivity_enhancer(globals, vault_path),
                                       EnhancerNames))
    /\ UNCHANGED <<tree, vault, built, content_index, link_graph, tag_index, file_stats,
                   memory, calls>>

GetProductivitySystem ==
    /\ ret.op = "idle"
    /\ \E vault_path \in VaultPathArguments :
         /\ globals' = get_productivity_system(globals, vault_path)
         /\ ret' = Returned("get_productivity_system", <<vault_path>>,
                            components(get_productivity_system(globals, vault_path),
                                       SystemNames))
    /\ UNCHANGED <<tree, vault, built, content_index, link_graph, tag_index, file_stats,
                   memory, calls>>

\* the user makes the directory of the vault
MakeVaultDirectory ==
    /\ ret.op = "idle" /\ tree.root = "missing"
    /\ tree' = EmptyRoot
    /\ UNCHANGED <<vault, built, content_index, link_graph, tag_index, file_stats, ret,
                   memory, calls, globals>>

AnalyzeKnowledgeClusters ==
    /\ UNCHANGED <<memory, calls, globals>>
    /\ built /\ ret.op = "idle"
    /\ ret' = Returned("analyze_knowledge_clusters", <<>>,
                       analyze_knowledge_clusters(content_index, link_graph, tag_index, file_stats))
    /\ UNCHANGED <<tree, vault, built, content_index, link_graph, tag_index, file_stats>>

\* the pure method _extract_links on one body
ExtractLinks ==
    /\ UNCHANGED <<memory, calls, globals>>
    /\ ret.op = "idle"
    /\ \E content \in Bodies(ExtractChunks, MaxLen) :
         ret' = Returned("_extract_links", <<content>>, extract_links(content))
    /\ UNCHANGED <<tree, vault, built, content_index, link_graph, tag_index, file_stats>>

\* _normalize_link on the engine's index
NormalizeLink ==
    /\ UNCHANGED <<memory, calls, globals>>
    /\ built /\ ret.op = "idle"
    /\ \E link \in RawTargets :
         ret' = Returned("_normalize_link", <<link>>, normalize_link(content_index, link))
    /\ UNCHANGED <<tree, vault, built, content_index, link_graph, tag_index, file_stats>>

\* the call returns to its caller, which is free to call again
Return ==
    /\ UNCHANGED <<memory, calls, globals>>
    /\ ret.op # "idle"
    /\ ret' = Idle
    /\ UNCHANGED <<tree, vault, built, content_index, link_graph, tag_index, file_stats>>

InitEngine ==
    /\ memory = NoMemory
    /\ calls = NoCalls
    /\ globals = NoGlobals
    /\ built = FALSE
    /\ content_index = <<>>
    /\ link_graph = <<>>
    /\ tag_index = <<>>
    /\ file_stats = <<>>
    /\ ret = Idle

\* a file whose front matter reads "tags:" has tags None
TextFiles == Files(Bodies(TextChunks, MaxLen), {ListTags(<<>>)})
             \cup Files({"neural"}, {NoneTags})
LinkFiles == Files(Bodies(LinkChunks, MaxLen), {ListTags(<<>>)})
             \cup Files({"", "[[A]]"}, {NoneTags})

\* notes, one of them tagged, with the two kinds of file whose indexing raises
NoteFiles == Files(NoteBodies, {ListTags(<<>>)}) \cup Files({"neural"}, {ListTags(<<"ai">>), NoneTags})
             \cup {Unreadable}

Init == tree = EmptyRoot /\ vault \in Vaults(Paths, TextFiles) /\ InitEngine
InitNotes ==
    /\ tree \in Trees
    /\ vault \in (IF tree.root = "missing" THEN {<<>>} ELSE Vaults(Paths, NoteFiles))
    /\ InitEngine
ServerFiles == Files(WrittenContents, {ListTags(<<>>)}) \cup Files({"neural"}, {NoneTags})

InitServer ==
    /\ tree \in Trees
    /\ vault \in (IF tree.root = "missing" THEN {<<>>} ELSE Vaults(ServerPaths, ServerFiles))
    /\ InitEngine
InitMemory == tree = EmptyRoot /\ vault = <<>> /\ InitEngine
InitLinks == tree = EmptyRoot /\ vault \in Vaults(Paths, LinkFiles) /\ InitEngine
InitSim == tree = EmptyRoot /\ vault = <<>> /\ InitEngine
ClusterFiles ==
    Files(ClusterBodies, {ListTags(l) : l \in ListedTags} \cup {NoneTags})
InitClusters ==
    /\ tree = EmptyRoot
    /\ vault \in Vaults(Paths, ClusterFiles) \cup [HubPaths -> Files(HubBodies, {ListTags(<<>>)})]
    /\ InitEngine
InitFactories ==
    /\ tree \in Trees
    /\ vault \in (IF tree.root = "missing" THEN {<<>>} ELSE Vaults({"A.md"}, ServerFiles))
    /\ InitEngine
InitExtract == tree = EmptyRoot /\ vault = <<>> /\ InitEngine
InitStems ==
    /\ tree = EmptyRoot
    /\ vault \in Vaults(StemPaths, Files(StemBodies, {ListTags(<<>>)}))
    /\ InitEngine

Next ==
    \/ Construct
    \/ FindSimilarNotes
    \/ DetectDuplicateContent
    \/ IdentifyOrphanedNotes
    \/ GetVaultHealthReport
    \/ Return

NextLinks ==
    \/ Construct
    \/ IdentifyOrphanedNotes
    \/ GetVaultHealthReport
    \/ Return

NextSim == CalculateSimilarity \/ Return

NextNotes ==
    \/ Construct
    \/ FindSimilarNotes
    \/ SuggestMissingBacklinks
    \/ DetectDuplicateContent
    \/ IdentifyOrphanedNotes
    \/ GetVaultHealthReport
    \/ Return

Spec == Init /\ [][Next]_vars
SpecLinks == InitLinks /\ [][NextLinks]_vars
SpecSim == InitSim /\ [][NextSim]_vars
SpecNotes == InitNotes /\ [][NextNotes]_vars

NextServer ==
    \/ ServerFindSimilarNotes
    \/ AnalyzeVaultHealth
    \/ WriteNote
    \/ Return

SpecServer == InitServer /\ [][NextServer]_vars

NextMemory ==
    \/ NewPersistentMemory
    \/ StoreConcept
    \/ StoreRelationship
    \/ RecallConceptHistory
    \/ Return

SpecMemory == InitMemory /\ [][NextMemory]_vars

NextClusters ==
    \/ Construct
    \/ AnalyzeKnowledgeClusters
    \/ Return

SpecClusters == InitClusters /\ [][NextClusters]_vars

NextFactories ==
    \/ EnsureVaultExists
    \/ GetProductivityEnhancer
    \/ GetProductivitySystem
    \/ MakeVaultDirectory
    \/ Return

SpecFactories == InitFactories /\ [][NextFactories]_vars

NextExtract ==
    \/ ExtractLinks
    \/ Return

SpecExtract == InitExtract /\ [][NextExtract]_vars

NextStems ==
    \/ Construct
    \/ NormalizeLink
    \/ Return

SpecStems == InitStems /\ [][NextStems]_vars

(***************************************************************************)
(* Properties                                                              *)
(***************************************************************************)
Float09 == Tenth(9)
Float1 == FromInt(1)
Float100 == FromInt(100)

\* the call op has returned a value, which ret holds
Called(op) == ret.op = op /\ ~ret.raised

ContentOf(path) == Entry(content_index, path).content

SharesToken(content1, content2) ==
    Range(TokenTable[content1]) \cap Range(TokenTable[content2]) # {}

PathsOf(out) == {out[i].path : i \in 1..Len(out)}

NonIncreasing(out) ==
    \A i, j \in 1..Len(out) : i < j => FGe(out[i].similarity, out[j].similarity)

\* what find_similar_notes(target_path, threshold, limit) is to return
SimilarContract(target_path, threshold, limit, out) ==
    LET sim(p)     == calculate_similarity(ContentOf(target_path), ContentOf(p))
        qualifying == {p \in Keys(content_index) \ {target_path} : FGe(sim(p), threshold)}
    IN  /\ PathsOf(out) \subseteq qualifying
        /\ \A i \in 1..Len(out) : out[i].similarity = sim(out[i].path)
        /\ NonIncreasing(out)
        /\ Len(out) = Min(limit, Cardinality(qualifying))
        /\ Cardinality(PathsOf(out)) = Len(out)
        /\ \A p \in qualifying \ PathsOf(out) :
             \A i \in 1..Len(out) : FLe(sim(p), out[i].similarity)
        /\ FGt(threshold, FZero) =>
             \A p \in PathsOf(out) : SharesToken(ContentOf(target_path), ContentOf(p))

\* C1: for an indexed target, a threshold and a limit >= 1, the list that
\* find_similar_notes returns holds only notes other than the target whose
\* similarity to it is >= threshold, in non-increasing order of similarity,
\* min(limit, number of such notes) of them, each once; every such note left
\* out is no more similar than any returned one; and for a threshold > 0 no
\* returned note is without a token in common with the target.
C1_FindSimilarNotes ==
    (Called("find_similar_notes") /\ ret.args[1] \in Keys(content_index)) =>
        SimilarContract(ret.args[1], ret.args[2], ret.args[3], ret.value)

\* the limit cut a qualifying note off that is strictly less similar than the
\* one returned
C1_Witness ==
    /\ Called("find_similar_notes")
    /\ ret.args[1] \in Keys(content_index)
    /\ ret.args[3] = 1
    /\ Len(ret.value) = 1
    /\ \E p \in Keys(content_index) \ {ret.args[1], ret.value[1].path} :
         /\ FGe(calculate_similarity(ContentOf(ret.args[1]), ContentOf(p)), ret.args[2])
         /\ FLt(calculate_similarity(ContentOf(ret.args[1]), ContentOf(p)), ret.value[1].similarity)

\* C2: the similarity computed for (A, B) is the one computed for (B, A).
C2_Symmetric ==
    ret.op = "_calculate_similarity" =>
        ret.value = calculate_similarity(ret.args[2], ret.args[1])

\* two bodies of different lengths with a similarity strictly between 0 and 1
C2_Witness ==
    /\ ret.op = "_calculate_similarity"
    /\ Len(TokenTable[ret.args[1]]) < Len(TokenTable[ret.args[2]])
    /\ FGt(ret.value, FZero)
    /\ FLt(ret.value, Float1)

\* C3: the similarity of any two bodies lies in [0, 1], and is 0 when either
\* body yields no token.
C3_Bounded ==
    ret.op = "_calculate_similarity" =>
        /\ FGe(ret.value, FZero)
        /\ FLe(ret.value, Float1)
        /\ (TokenTable[ret.args[1]] = <<>> \/ TokenTable[ret.args[2]] = <<>>) => ret.value = FZero

\* C4: two identical bodies have similarity exactly 1.0.  Stated for bodies that
\* yield a token, those for which C3 does not ask for 0.
C4_IdenticalIsOne ==
    (/\ ret.op = "_calculate_similarity"
     /\ ret.args[1] = ret.args[2]
     /\ TokenTable[ret.args[1]] # <<>>) => ret.value = Float1

\* the (source note, outgoing link) entries of the link graph
LinkEntries == UNION {{<<src, l>> : l \in link_graph[src]} : src \in DOMAIN link_graph}

Resolves(link) == normalize_link(content_index, link) # ""

\* C5: once the index is built, the backlink counts stored for the notes add up
\* to the number of (source note, outgoing link) entries whose link normalizes
\* to a note.
C5_BacklinkSum ==
    built => SumOver(DOMAIN file_stats, file_stats)
                = Cardinality({sl \in LinkEntries : Resolves(sl[2])})

\* C6: once the index is built, the backlink count stored for a note is the
\* number of other notes with at least one outgoing link that normalizes to it.
C6_BacklinksFromOthers ==
    built => \A p \in DOMAIN file_stats :
                file_stats[p] = Cardinality({src \in DOMAIN link_graph \ {p} :
                                    \E l \in link_graph[src] :
                                        normalize_link(content_index, l) = p})

\* C7: identify_orphaned_notes returns the indexed notes with no backlink and at
\* most one outgoing link, those and no other, each once.
C7_OrphansExact ==
    Called("identify_orphaned_notes") =>
        /\ PathsOf(ret.value)
             = {p \in Keys(content_index) :
                  /\ backlink_counts(content_index, link_graph, p) = 0
                  /\ Cardinality(LinksOf(link_graph, p)) <= 1}
        /\ Cardinality(PathsOf(ret.value)) = Len(ret.value)

PairOf(dup) == {dup.note1.path, dup.note2.path}

\* what detect_duplicate_content(threshold) is to return
DuplicatesContract(threshold, out) ==
    /\ \A i \in 1..Len(out) : out[i].note1.path # out[i].note2.path
    /\ \A i, j \in 1..Len(out) : i # j => PairOf(out[i]) # PairOf(out[j])
    /\ {PairOf(out[i]) : i \in 1..Len(out)}
         = {{p, q} : <<p, q>> \in {pq \in Keys(content_index) \X Keys(content_index) :
                /\ pq[1] # pq[2]
                /\ FGe(calculate_similarity(ContentOf(pq[1]), ContentOf(pq[2])), threshold)}}
    /\ \A i \in 1..Len(out) :
         out[i].similarity = calculate_similarity(ContentOf(out[i].note1.path),
                                                  ContentOf(out[i].note2.path))
    /\ NonIncreasing(out)

\* a vault of two notes with the same body, asked at threshold 0.9
TwoIdentical(threshold) ==
    /\ Len(content_index) = 2
    /\ content_index[1].content = content_index[2].content
    /\ threshold = Float09

\* C8, as it stands: detect_duplicate_content returns one entry for every
\* unordered pair of distinct notes of similarity >= threshold and no other
\* entry, no pair twice, no note with itself, in non-increasing order of
\* similarity; and two notes with identical bodies in a two-note vault give
\* exactly one pair at threshold 0.9.
C8_AnyIdenticalBodies ==
    Called("detect_duplicate_content") =>
        /\ DuplicatesContract(ret.args[1], ret.value)
        /\ TwoIdentical(ret.args[1]) => Len(ret.value) = 1

\* C8, amended: as above, where the two identical bodies yield at least one
\* token (a run of more than 2 word characters).
C8_Duplicates ==
    Called("detect_duplicate_content") =>
        /\ DuplicatesContract(ret.args[1], ret.value)
        /\ (TwoIdentical(ret.args[1]) /\ TokenTable[content_index[1].content] # <<>>)
             => Len(ret.value) = 1

\* two notes with the same token-bearing body gave one pair at 0.9
C8_Witness ==
    /\ Called("detect_duplicate_content")
    /\ TwoIdentical(ret.args[1])
    /\ TokenTable[content_index[1].content] # <<>>
    /\ Len(ret.value) = 1

InPercent(x) == FGe(x, FZero) /\ FLe(x, Float100)

\* C9: get_vault_health_report raises no ZeroDivisionError, also on a vault
\* without notes, and its connectivity, organization and uniqueness scores lie
\* in [0, 100].
C9_HealthScores ==
    ret.op = "get_vault_health_report" =>
        /\ ~ret.raised
        /\ ret.value.health_scores.connectivity \in 0..100
        /\ InPercent(ret.value.health_scores.organization)
        /\ InPercent(ret.value.health_scores.uniqueness)

\* the report of a vault without notes
C9_Witness ==
    /\ Called("get_vault_health_report")
    /\ ret.value.overview.total_notes = 0
    /\ content_index = <<>>

\* round(100 * n / total) for 0 <= n <= total, total > 0
RoundPercent(n, total) ==
    IF (200 * n) % (2 * total) = total /\ ((100 * n) \div total) % 2 = 0
    THEN (100 * n) \div total
    ELSE (200 * n + total) \div (2 * total)

\* C10: in a vault with at least one note, the connectivity score is
\* min(100, round(100 * notes with a backlink / total notes)).
C10_ConnectivityRounded ==
    (Called("get_vault_health_report") /\ Len(content_index) >= 1) =>
        ret.value.health_scores.connectivity
            = Min(100, RoundPercent(Cardinality({p \in DOMAIN file_stats : file_stats[p] > 0}),
                                    Len(content_index)))

FAbs(x) == IF x.s < 0 THEN FNeg(x) ELSE x

\* 2^-30, the error allowed to a score for the rounding of its float steps
Rounding == FDiv(FromInt(1), FromInt(2^30))

\* min(100, max(0, 100 - weight * n / total)) as the real number it is, rounded
\* once to a float; weight is 100 * k
ExactScores ==
    [n \in 0..MaxCount, total \in 1..MaxCount, k \in 1..2 |->
        IF 100 * k * n >= 100 * total THEN FZero
        ELSE FDiv(FromInt(100 * total - 100 * k * n), FromInt(total))]

\* the distance of each score from the real number asked for
ScoreErrors ==
    [n \in 0..MaxCount, total \in 1..MaxCount, k \in 1..2 |->
        FAbs(FSub(penalty_score(n, total, 100 * k), ExactScores[n, total, k]))]

\* the orphan list and the duplicate-pair list of the report made in this state
ReportOrphans == identify_orphaned_notes(content_index, link_graph, file_stats)

ReportDuplicates == detect_duplicate_content(content_index, DefaultDuplicateThreshold)

ReportCounts(report) ==
    /\ report.overview.orphaned_notes = Len(ReportOrphans)
    /\ report.overview.potential_duplicates = Len(ReportDuplicates)
    /\ report.overview.total_notes = Len(content_index)

\* C11, as it stands: the organization score is
\* min(100, max(0, 100 - 100 * orphanCount / totalNotes)) and the uniqueness
\* score min(100, max(0, 100 - 200 * duplicatePairCount / totalNotes)), the
\* counts being the lengths of the two lists of the same report; the quotient
\* has a value (totalNotes is not 0) and the score is that number.
C11_ScoresAsWritten ==
    Called("get_vault_health_report") =>
        /\ ReportCounts(ret.value)
        /\ ret.value.overview.total_notes > 0
        /\ ret.value.health_scores.organization
             = ExactScores[ret.value.overview.orphaned_notes, ret.value.overview.total_notes, 1]
        /\ ret.value.health_scores.uniqueness
             = ExactScores[ret.value.overview.potential_duplicates, ret.value.overview.total_notes, 2]

\* C11, amended: the same with max(totalNotes, 1) for the divisor, each score
\* being within 2^-30 of the number the formula gives.
C11_Scores ==
    Called("get_vault_health_report") =>
        /\ ReportCounts(ret.value)
        /\ FLe(FAbs(FSub(ret.value.health_scores.organization,
                         ExactScores[ret.value.overview.orphaned_notes,
                                     Max(ret.value.overview.total_notes, 1), 1])), Rounding)
        /\ FLe(FAbs(FSub(ret.value.health_scores.uniqueness,
                         ExactScores[ret.value.overview.potential_duplicates,
                                     Max(ret.value.overview.total_notes, 1), 2])), Rounding)

\* a report with orphans and duplicate pairs whose two scores differ and are
\* neither 0 nor 100
C11_Witness ==
    /\ Called("get_vault_health_report")
    /\ ret.value.overview.orphaned_notes > 0
    /\ ret.value.overview.potential_duplicates > 0
    /\ ret.value.health_scores.organization # ret.value.health_scores.uniqueness
    /\ FGt(ret.value.health_scores.organization, FZero)
    /\ FLt(ret.value.health_scores.organization, Float100)
    /\ FGt(ret.value.health_scores.uniqueness, FZero)
    /\ FLt(ret.value.health_scores.uniqueness, Float100)

RuleOrder == <<"connect_orphans", "review_duplicates", "add_cross_references", "organize_hubs">>

Fires(report, rule) ==
    CASE rule = "connect_orphans"      -> report.overview.orphaned_notes > 0
      [] rule = "review_duplicates"    -> report.overview.potential_duplicates > 0
      [] rule = "add_cross_references" -> FLt(report.overview.connectivity_ratio, Float03)
      [] rule = "organize_hubs"        -> FGt(report.overview.connectivity_ratio, Float08)

FiringRules(report) == SelectSeq(RuleOrder, LAMBDA rule : Fires(report, rule))

\* C12: the recommendations of a health report are one entry per rule that
\* fires and no other, in the order connect orphans (orphan count > 0), review
\* duplicates (duplicate-pair count > 0), add cross-references (connectivity
\* ratio < 0.3), organize hubs (connectivity ratio > 0.8); the first two entries
\* carry the count they are about.
C12_Recommendations ==
    Called("get_vault_health_report") =>
        /\ ReportCounts(ret.value)
        /\ Len(ret.value.recommendations) = Len(FiringRules(ret.value))
        /\ \A i \in 1..Len(ret.value.recommendations) :
              /\ ret.value.recommendations[i].rule = FiringRules(ret.value)[i]
              /\ ret.value.recommendations[i].rule = "connect_orphans"
                    => ret.value.recommendations[i].n = ret.value.overview.orphaned_notes
              /\ ret.value.recommendations[i].rule = "review_duplicates"
                    => ret.value.recommendations[i].n = ret.value.overview.potential_duplicates

\* a report in which three rules fire at once
C12_Witness ==
    /\ Called("get_vault_health_report")
    /\ Len(ret.value.recommendations) = 3
    /\ ret.value.recommendations[2].rule = "review_duplicates"

\* a report in which the hub rule fires
C12_HubsFire ==
    /\ Called("get_vault_health_report")
    /\ \E i \in 1..Len(ret.value.recommendations) : ret.value.recommendations[i].rule = "organize_hubs"

\* what the call held by ret answers on the index ix
Answer(ix, call) ==
    CASE call.op = "find_similar_notes" ->
            find_similar_notes(ix.content_index, call.args[1], call.args[2], call.args[3])
      [] call.op = "suggest_missing_backlinks" ->
            suggest_missing_backlinks(ix.content_index, ix.link_graph, ix.file_stats, call.args[1])
      [] call.op = "detect_duplicate_content" ->
            Returned("detect_duplicate_content", call.args,
                     detect_duplicate_content(ix.content_index, call.args[1]))
      [] call.op = "identify_orphaned_notes" ->
            Returned("identify_orphaned_notes", <<>>,
                     identify_orphaned_notes(ix.content_index, ix.link_graph, ix.file_stats))
      [] call.op = "get_vault_health_report" ->
            get_vault_health_report(ix.content_index, ix.link_graph, ix.file_stats)

\* the files of the vault whose indexing raises at its first steps (open,
\* decode, front-matter parse) and those whose indexing raises at any step
CannotBeRead == {p \in DOMAIN vault : ~vault[p].readable}

IndexingRaises == {p \in DOMAIN vault : ~vault[p].readable \/ vault[p].tags.none}

Without(paths) == [p \in DOMAIN vault \ paths |-> vault[p]]

\* the files in paths are in no map of the index, and the call held by ret
\* answers what it answers on the vault without them
LeftOut(paths) ==
    /\ \A p \in paths : /\ p \notin Keys(content_index)
                        /\ p \notin DOMAIN link_graph
                        /\ p \notin DOMAIN file_stats
    /\ ret.op # "idle" =>
          /\ ~ret.raised
          /\ \E order \in PermTable[DOMAIN vault \ paths] :
                ret = Answer(build_indexes(Without(paths), order), ret)

\* C13: a file whose indexing raises at any step is left out of the index
\* entirely, and no later analysis call raises or answers otherwise than on
\* the vault without the file.
C13_FailingFilesLeftOut == built => LeftOut(IndexingRaises)

\* the same for the vaults whose failing files all fail before line 47 (at
\* open or in frontmatter.load): this much holds
C13_UnreadableLeftOut ==
    (built /\ CannotBeRead = IndexingRaises) => LeftOut(CannotBeRead)

C13_UnreadableWitness ==
    /\ built /\ CannotBeRead = IndexingRaises /\ CannotBeRead # {}
    /\ Called("find_similar_notes") /\ ret.value # <<>>

\* C14: the construction of the engine on a vault root that does not exist
\* fails with VaultNotFoundError, and construction fails on no other condition:
\* a construction that raised was one on a missing root and raised that error,
\* and an engine was built only on a root that exists.
C14_OnlyVaultNotFound ==
    /\ (ret.op = "__init__" /\ ret.raised) =>
          (tree.root = "missing" /\ ret.value = "VaultNotFoundError")
    /\ built => tree.root = "dir"

\* C15: the construction of the engine changes nothing under the vault root:
\* the step that builds the engine leaves the directory and its notes as they
\* were.
C15_TreeUnchanged == [][built' # built => (tree' = tree /\ vault' = vault)]_vars

\* C17: find_similar_notes and suggest_missing_backlinks, called with a path
\* that is not in the index, return an empty list and raise no error.
C17_NotIndexedIsEmpty ==
    (/\ ret.op \in {"find_similar_notes", "suggest_missing_backlinks"}
     /\ ret.args[1] \notin Keys(content_index))
        => (~ret.raised /\ ret.value = <<>>)

\* suggest_missing_backlinks has been called, on an index that holds notes,
\* with the path of a file of the vault that the index lacks
C17_Witness ==
    /\ Called("suggest_missing_backlinks")
    /\ ret.args[1] \in DOMAIN vault
    /\ ret.args[1] \notin Keys(content_index)
    /\ content_index # <<>>
    /\ ret.value = <<>>

\* what the analysis tool held by ret answers on the index ix
ServerAnswer(ix, call) ==
    IF call.op = "server.find_similar_notes"
    THEN similar_response(find_similar_notes(ix.content_index, call.args[1], call.args[2], 10))
    ELSE health_response(get_vault_health_report(ix.content_index, ix.link_graph, ix.file_stats))

\* C16: an analysis tool of the server answers from the notes as they are when
\* it is called, whatever was written since the engine was made: its answer is
\* the one an index built from the vault at the time of the call gives.
C16_ReflectsCurrentVault ==
    (/\ ret.op \in {"server.find_similar_notes", "server.analyze_vault_health"}
     /\ ~ret.raised
     /\ tree.root = "dir")
        => \E order \in PermTable[DOMAIN vault] :
              ret.value = ServerAnswer(build_indexes(vault, order), ret)

\* the same on the engines made by the very call that answers: this much holds
C16_FreshEngineWitness ==
    /\ ret.op = "server.analyze_vault_health" /\ ~ret.raised /\ tree.root = "dir"
    /\ ret.value.total_notes = Cardinality(DOMAIN vault)
    /\ vault # <<>>

RowsNamed(name) == SelectSeq(memory.concepts, LAMBDA r : r.name = name)

\* C18: once store_concept(n, ...) has been called, by whatever instance and
\* among whatever other store_concept calls, recall_concept_history(n) from any
\* instance returns a record whose concept name is exactly n.
C18_RecallsExactName ==
    (ret.op = "recall_concept_history" /\ calls[ret.args[1]].count > 0)
        => /\ "concept" \in DOMAIN ret.value
           /\ ret.value.concept.name = ret.args[1]

\* what holds of the same calls: some record is returned, of a concept whose
\* name holds n when case is ignored
C18_RecallsSomeName ==
    (ret.op = "recall_concept_history" /\ calls[ret.args[1]].count > 0)
        => /\ "concept" \in DOMAIN ret.value
           /\ Contains(Lower(ret.value.concept.name), Lower(ret.args[1]))

\* C19: store_concept is an upsert keyed by name.  No two rows of the concepts
\* table have the same name; a name has a row exactly when store_concept was
\* called for it, and the row's access_count is the number of those calls and
\* its id the positive id the first of them returned; every call returns that
\* id.
C19_Upsert ==
    /\ \A i, j \in 1..Len(memory.concepts) :
          i # j => memory.concepts[i].name # memory.concepts[j].name
    /\ \A name \in ConceptNames :
          IF calls[name].count = 0 THEN RowsNamed(name) = <<>>
          ELSE /\ Len(RowsNamed(name)) = 1
               /\ RowsNamed(name)[1].access_count = calls[name].count
               /\ RowsNamed(name)[1].id = calls[name].first_id
               /\ calls[name].first_id > 0
    /\ ret.op = "store_concept" =>
          (ret.value > 0 /\ ret.value = calls[ret.args[1]].first_id)

\* the second instance has stored a name stored before, among other names, and
\* got the id of the row, which is not the newest
C19_Witness ==
    /\ Called("store_concept")
    /\ ret.args[3] = 2
    /\ calls[ret.args[1]].count >= 2
    /\ Len(memory.concepts) >= 2
    /\ ret.value < lastrowid(memory.concepts) - 1

RelatedPair(row) == {row.concept1_id, row.concept2_id}

\* C20: store_relationship(a, b, ...) with a # b returns True, and no two rows
\* of the relationship table are of the same unordered pair of concepts, in
\* whichever order the names were passed on each call.
C20_OneRowPerPair ==
    /\ (ret.op = "store_relationship" /\ ret.args[1] # ret.args[2]) => ret.value = TRUE
    /\ \A i, j \in 1..Len(memory.concept_relationships) :
          i # j => RelatedPair(memory.concept_relationships[i])
                      # RelatedPair(memory.concept_relationships[j])

\* store_relationship has returned True on a pair whose row was stored with
\* the two names in the other order, and the table has that one row
C20_Witness ==
    /\ Called("store_relationship") /\ ret.value = TRUE
    /\ ret.args[1] # ret.args[2]
    /\ Len(memory.concept_relationships) = 1
    /\ RowsNamed(ret.args[2])[1].id = memory.concept_relationships[1].concept1_id
    /\ RowsNamed(ret.args[1])[1].id = memory.concept_relationships[1].concept2_id

(***************************************************************************)
(* Link extraction, normalization and backlink counts                      *)
(***************************************************************************)
\* the name a wiki reference denotes: what precedes a | alias
WikiName(raw) == SubSeq(raw, 1, Find(raw, 1, "|") - 1)

\* the name a markdown reference to Name.md denotes
MdName(raw) == SubSeq(raw, 1, Len(raw) - 3)

BareNames(content) ==
    {WikiName(raw) : raw \in Range(WikiLinks(content, 1))}
        \cup {MdName(raw) : raw \in Range(MdLinks(content, 1))}

\* C21: _extract_links returns the bare target names of the references in
\* the body: Name for [[Name|alias]], [[Name]] and [text](Name.md), each
\* name once however often and in whichever form it is referenced.
C21_BareTargetNames ==
    Called("_extract_links") => ret.value = BareNames(ret.args[1])

\* a reference without alias and the markdown form of the same name are two
\* entries, and an alias stays in the entry
C21_TwoFormsTwoEntries ==
    /\ Called("_extract_links")
    /\ ret.args[1] = "[[A]] [see](A.md)"
    /\ ret.value = {"A", "A.md"}

C21_AliasKept ==
    /\ Called("_extract_links")
    /\ ret.args[1] = "[[A|alias]]"
    /\ ret.value = {"A|alias"}

\* the target without one trailing .md
Stripped(link) == IF EndsWith(link, ".md") THEN SubSeq(link, 1, Len(link) - 3) ELSE link

\* the path of the first of the index's entries at the positions M, none: ""
FirstOf(ci, M) == IF M = {} THEN "" ELSE ci[CHOOSE i \in M : \A j \in M : i <= j].path

StemEquals(ci, target) == {i \in 1..Len(ci) : PathStem(ci[i].path) = target}

PathEquals(ci, target) == {i \in 1..Len(ci) : ci[i].path = target \o ".md"}

C22_PathWitness ==
    /\ Called("_normalize_link")
    /\ ret.args[1] = "sub/C"
    /\ ret.value = "sub/C.md"

\* C23: the backlink counts do not depend on the order in which the notes
\* are indexed: every order of the same notes yields the count the engine
\* holds for every note, also when two notes share a stem.
C23_OrderIndependent ==
    built => \A order \in PermTable[DOMAIN vault] :
                 build_indexes(vault, order).file_stats = file_stats

\* [[A]] in sub/C.md counts for sub/A.md, indexed before A.md
C23_CountsForFirstIndexed ==
    /\ built
    /\ DOMAIN vault = StemPaths
    /\ vault["sub/C.md"].content = "[[A]]" /\ vault["A.md"].content = "" /\ vault["sub/A.md"].content = ""
    /\ file_stats["sub/A.md"] = 1 /\ file_stats["A.md"] = 0

(***************************************************************************)
(* analyze_knowledge_clusters                                              *)
(***************************************************************************)
\* the indexed notes whose front matter lists the tag
Carrying(tag) ==
    {content_index[i].path : i \in {j \in 1..Len(content_index) :
        tag \in Range(content_index[j].tags.list)}}

\* C24: analyze_knowledge_clusters reports a tag as a cluster exactly when
\* at least 3 distinct notes carry it, with the number of those notes as the
\* cluster's size.
C24_ClustersOfDistinctNotes ==
    Called("analyze_knowledge_clusters") =>
        /\ DOMAIN ret.value.tag_clusters =
               {tag \in UNION {Range(l) : l \in ListedTags} :
                   Cardinality(Carrying(tag)) >= MinClusterSize}
        /\ \A tag \in DOMAIN ret.value.tag_clusters :
               ret.value.tag_clusters[tag].note_count = Cardinality(Carrying(tag))

\* two notes carry the tag ai, one of them lists it twice, and the tag is
\* reported as a cluster of 3 notes
C24_TwoNotesReported ==
    /\ Called("analyze_knowledge_clusters")
    /\ Cardinality(Carrying("ai")) = 2
    /\ "ai" \in DOMAIN ret.value.tag_clusters
    /\ ret.value.tag_clusters["ai"].note_count = 3

\* backlink count plus number of outgoing links of an indexed note
Connections(path) ==
    backlink_counts(content_index, link_graph, path) + outgoing(link_graph, path)

Reported(out) == {out[i].path : i \in 1..Len(out)}

HubsOf(out) ==
    /\ \A i \in 1..Len(out) :
          /\ out[i].total_connections = Connections(out[i].path)
          /\ out[i].total_connections >= MinHubConnections
    /\ \A i, j \in 1..Len(out) : i < j => out[i].total_connections >= out[j].total_connections
    /\ Len(out) <= MaxHubs
    /\ \A path \in Keys(content_index) \ Reported(out) :
          Connections(path) >= MinHubConnections =>
              \A i \in 1..Len(out) : Connections(path) <= out[i].total_connections

\* C25: analyze_knowledge_clusters reports as hubs only notes whose backlink
\* count plus number of outgoing links is >= 5, in non-increasing order of
\* that total, at most 10, and no omitted note with a total >= 5 has a
\* larger total than a reported one.
C25_Hubs ==
    Called("analyze_knowledge_clusters") => HubsOf(ret.value.knowledge_hubs)

\* the same on the vaults all of whose indexed notes were indexed to the end
C25_HubsOfWholeIndex ==
    Called("analyze_knowledge_clusters") /\ Keys(content_index) = DOMAIN file_stats =>
        HubsOf(ret.value.knowledge_hubs)

\* eleven notes have a total >= 5 and ten are reported
C25_TenOfEleven ==
    /\ Called("analyze_knowledge_clusters")
    /\ Cardinality({path \in Keys(content_index) : Connections(path) >= MinHubConnections}) = 11
    /\ Len(ret.value.knowledge_hubs) = MaxHubs
    /\ ret.value.knowledge_hubs[1].total_connections > ret.value.knowledge_hubs[MaxHubs].total_connections

\* a note whose indexing stopped at its tags has a larger total than a
\* reported hub and is not reported
C25_LargerTotalOmitted ==
    /\ Called("analyze_knowledge_clusters")
    /\ ret.value.knowledge_hubs # <<>>
    /\ \E path \in Keys(content_index) \ DOMAIN file_stats :
          Connections(path) > ret.value.knowledge_hubs[1].total_connections

(***************************************************************************)
(* The get-or-create factories                                             *)
(***************************************************************************)
\* a global that holds an object holds the same object after the step
InstancesKept ==
    \A n \in Range(EnhancerNames \o SystemNames \o ServerNames) :
        globals[n] # None => globals'[n] = globals[n]

\* a factory returns the objects its globals hold
HeldReturned(op, names) ==
    ret.op = "idle" /\ ret'.op = op =>
        /\ ret'.value = components(globals', names)
        /\ \A n \in Range(names) : ret'.value[n] # None

\* ensure_vault_exists returns False and leaves the globals alone when the
\* vault path does not exist
FalseWhileMissing ==
    ret.op = "idle" /\ ret'.op = "ensure_vault_exists" /\ tree.root = "missing" =>
        /\ ~ret'.raised
        /\ ret'.value = FALSE
        /\ globals' = globals

\* C26: once ensure_vault_exists, get_productivity_enhancer or
\* get_productivity_system has created a component, no later call replaces
\* it and every later call of the factory returns it, whatever vault path is
\* passed; ensure_vault_exists returns False and creates nothing while the
\* vault path does not exist.
C26_ProcessWideInstances ==
    [][/\ InstancesKept
       /\ HeldReturned("get_productivity_enhancer", EnhancerNames)
       /\ HeldReturned("get_productivity_system", SystemNames)
       /\ FalseWhileMissing]_vars

\* get_productivity_system("/other") returns the components that
\* ensure_vault_exists made for the vault path of the server
C26_Witness ==
    /\ Called("get_productivity_system")
    /\ ret.args[1] = "/other"
    /\ globals.productivity_system # None
    /\ ret.value = globals.productivity_system
    /\ ret.value["knowledge_organizer"].vault_path = VAULT_PATH

\* ensure_vault_exists has returned False, and no component exists
C26_FalseWitness ==
    /\ Called("ensure_vault_exists")
    /\ ret.value = FALSE
    /\ globals = NoGlobals

(***************************************************************************)
(* The maps of the index                                                   *)
(***************************************************************************)
\* C27: after the index is built, _content_index, _link_graph and
\* _file_stats hold the same note paths, and no analysis call raises for a
\* path that one map holds and another lacks.
C27_SameNotePaths ==
    built => /\ Keys(content_index) = DOMAIN link_graph
             /\ DOMAIN link_graph = DOMAIN file_stats
             /\ ~(ret.op = "suggest_missing_backlinks" /\ ret.raised /\ ret.value = "KeyError")

\* a note is in _content_index and _link_graph and not in _file_stats
C27_MissingFileStats ==
    /\ built
    /\ Keys(content_index) = DOMAIN link_graph
    /\ \E path \in DOMAIN link_graph : path \notin DOMAIN file_stats

\* suggest_missing_backlinks raises KeyError for such a note
C27_KeyError ==
    /\ ret.op = "suggest_missing_backlinks" /\ ret.raised /\ ret.value = "KeyError"
    /\ \E path \in Keys(content_index) : path \notin DOMAIN file_stats

(***************************************************************************)
(* Relationship strengths and what a call leaves alone                     *)
(***************************************************************************)
\* C28: whatever strengths store_relationship is given, every stored
\* relationship has a strength of at most 1.0.
C28_StrengthAtMostOne ==
    \A i \in 1..Len(memory.concept_relationships) :
        FLe(memory.concept_relationships[i].strength, Float1)

\* a relationship is stored with the strength 2.0 it was given
C28_StoredUncapped ==
    /\ Called("store_relationship") /\ ret.value = TRUE
    /\ \E i \in 1..Len(memory.concept_relationships) :
          memory.concept_relationships[i].strength = FromInt(2)

\* the second half of C28: a call on a stored pair sets its strength to
\* the smaller of 1.0 and the mean of the stored and the given strength
C28_UpdateAverages ==
    [][ret.op = "idle" /\ ret'.op = "store_relationship" =>
          \A i \in 1..Len(memory.concept_relationships) :
              LET old  == memory.concept_relationships[i].strength
                  new  == memory'.concept_relationships[i].strength
                  mean == FDiv(FAdd(old, ret'.args[3]), FromInt(2))
              IN  new # old => /\ FLe(new, Float1) /\ FLe(new, mean)
                               /\ (new = Float1 \/ new = mean)]_vars

\* the rows of the table concepts
Stored(db) == {db.concepts[i] : i \in 1..Len(db.concepts)}

\* C29: a store_relationship call that returns False because both names are
\* the same concept leaves the store as it was: no row is added, and no
\* access_count or description changes.
C29_FalseLeavesStore ==
    [][ret.op = "idle" /\ ret'.op = "store_relationship" /\ ret'.value = FALSE
           /\ ret'.args[1] = ret'.args[2]
       => memory' = memory]_vars

\* store_relationship(n, n) has returned False, and n's row, which held the
\* description d, holds the empty description
C29_Changed ==
    /\ Called("store_relationship") /\ ret.value = FALSE
    /\ ret.args[1] = ret.args[2]
    /\ calls[ret.args[1]].count >= 3
    /\ \E row \in Stored(memory) : row.name = ret.args[1] /\ row.description = ""

\* C30: a later store_concept(n) without description, or a
\* store_relationship that names n, leaves the non-empty description and
\* the category stored for n as they are.
C30_DescriptionKept ==
    [][/\ ret.op = "idle"
       /\ \/ ret'.op = "store_concept" /\ ret'.args[2] = ""
          \/ ret'.op = "store_relationship"
       => \A i \in 1..Len(memory.concepts) :
              memory.concepts[i].description # "" =>
                  /\ memory'.concepts[i].description = memory.concepts[i].description
                  /\ memory'.concepts[i].category = memory.concepts[i].category]_vars

\* store_concept(n, "d") and then store_concept(n, "") were called, and n
\* is stored with the empty description
C30_Erased ==
    /\ Called("store_concept") /\ ret.args[2] = ""
    /\ calls[ret.args[1]].count = 2
    /\ \E row \in Stored(memory) :
          row.name = ret.args[1] /\ row.description = "" /\ row.access_count = 2

====
